---- MODULE Spec2Model ----
(***************************************************************************)
(* Model of the NewsScraper ingestion / dedup / search pipeline.           *)
(*                                                                         *)
(*   feed_parser.py            parse_entry, create_article_id, fetch_feed, *)
(*                             fetch_all_feeds, save_to_cache              *)
(*   weekly_feed_processor.py  WeeklyFeedProcessor.process_feeds           *)
(*   vector_store.py           VectorStore.add_articles, VectorStore.search*)
(*   entrypoint.py             process_feeds_task, start_scheduler, main   *)
(*                                                                         *)
(* Strings are sequences of one-character tokens, so that concatenation is *)
(* real concatenation.  A datetime is a record (day, sec, us, aware): the  *)
(* day number, the second of the day, the microsecond of the second and    *)
(* whether the value carries a UTC offset (an "aware" datetime).           *)
(***************************************************************************)
EXTENDS Integers, Sequences, FiniteSets, TLC

VARIABLES
    now,        \* datetime.now(): the wall clock
    store,      \* the Qdrant collection: a set of points [id, payload]
    cache,      \* the cache files: source -> list of article dicts
    run,        \* the outcome of the last process_feeds / fetch_all_feeds call
    direct,     \* the last add_articles call made outside process_feeds
    idcase,     \* the pair of articles create_article_id is applied to
    mainPc,     \* entrypoint.py: position of the main thread
    schedPc,    \* entrypoint.py: position of the run_scheduler thread
    jobs,       \* the schedule library's job list: the next_run of each job
    hours,      \* entrypoint.py: whole scheduling intervals elapsed so far
    running,    \* the process_feeds_task calls in progress: [by, since]
    taskLog,    \* the last finished process_feeds_task call and the failures
    srch        \* the outcome of the last VectorStore.search call of a client

vars == <<now, store, cache, run, direct, idcase, mainPc, schedPc, jobs, hours,
          running, taskLog, srch>>

-----------------------------------------------------------------------------
(* Bounds of the model *)

\* the clock of the ingestion specifications runs from day 8 to this day
MaxDay == 9

\* the entrypoint specification observes this many scheduling intervals
MaxHours == 2

-----------------------------------------------------------------------------
(* Program constants *)

MAX_ARTICLES_PER_FEED == 10
batch_size == 10
EXISTING_IDS_LIMIT == 10000
RECENT_DAYS == 7
UPDATE_INTERVAL_HOURS == 1

\* config.RSS_FEEDS, cut down to its first two sources, in dictionary order
RSS_FEEDS == <<"cnn", "bbc">>

-----------------------------------------------------------------------------
(* datetime *)

DateTime(day, sec, us, aware) ==
    [day |-> day, sec |-> sec, us |-> us, aware |-> aware]

\* Python refuses to order a naive and an aware datetime (TypeError)
Comparable(a, b) == a.aware = b.aware

Before(a, b) ==
    \/ a.day < b.day
    \/ a.day = b.day /\ a.sec < b.sec
    \/ a.day = b.day /\ a.sec = b.sec /\ a.us < b.us

\* a >= b, for comparable a and b
AtOrAfter(a, b) == ~Before(a, b)

\* t - timedelta(days=n)
MinusDays(t, n) == [t EXCEPT !.day = @ - n]

\* the UTC offsets that texts are written with, in seconds east of UTC
Offsets == ("+00:00" :> 0) @@ ("+05:00" :> 18000)

\* the offset of an aware datetime: UTC unless it carries another tzinfo
utcoffset(t) == IF "off" \in DOMAIN t THEN t.off ELSE 0

OffsetText(t) == CHOOSE o \in DOMAIN Offsets : Offsets[o] = utcoffset(t)

\* datetime.isoformat(): the microseconds are printed only when not zero, the
\* offset only for an aware value
isoformat(t) ==
    <<ToString(t.day), "T", ToString(t.sec)>>
    \o (IF t.us # 0 THEN <<".", ToString(t.us)>> ELSE <<>>)
    \o (IF t.aware THEN <<OffsetText(t)>> ELSE <<>>)

-----------------------------------------------------------------------------
(* feed entries, as feedparser delivers them *)

EmptyStr == <<>>
EmptyUrl == [host |-> EmptyStr, path |-> EmptyStr]
NoStruct == <<>>
\* a free-text date: absent or empty, unparseable, or parsed by dateutil to t
NoText == [present |-> FALSE, parses |-> FALSE, t |-> DateTime(0, 0, 0, FALSE)]
BadText == [present |-> TRUE, parses |-> FALSE, t |-> DateTime(0, 0, 0, FALSE)]
Text(t) == [present |-> TRUE, parses |-> TRUE, t |-> t]

Entry(title, link, pp, up, p, u) ==
    [title |-> title, link |-> link, published_parsed |-> pp,
     updated_parsed |-> up, published |-> p, updated |-> u]

\* urlparse(url).path
UrlPath(url) == url.path

\* hashlib.md5(s).hexdigest(), taken as injective on the string it is given
md5(s) == s

create_article_id_no_title(url, title, published_date) ==
    md5(UrlPath(url) \o <<"_">> \o <<"_">> \o isoformat(published_date))

create_article_id(url, title, published_date) ==
    md5(UrlPath(url) \o <<"_">> \o title \o <<"_">> \o isoformat(published_date))

\* datetime(*struct_time[:6]): a naive datetime of whole seconds
FromStruct(st) == DateTime(st[1], st[2], 0, FALSE)

\* feed_parser.py:224-239, the published date of an entry parsed at time `at`
PublishedDate(entry, at) ==
    IF entry.published_parsed # NoStruct THEN FromStruct(entry.published_parsed)
    ELSE IF entry.updated_parsed # NoStruct THEN FromStruct(entry.updated_parsed)
    ELSE IF entry.published.present
        THEN (IF entry.published.parses THEN entry.published.t ELSE at)
    ELSE IF entry.updated.present
        THEN (IF entry.updated.parses THEN entry.updated.t ELSE at)
    ELSE at

NoArticle == [ok |-> FALSE]

\* parse_entry without the check of the link
parse_entry_unchecked_link(entry, source, at) ==
    IF entry.title = EmptyStr THEN NoArticle
    ELSE LET published_date == PublishedDate(entry, at)
         IN [ok |-> TRUE,
             article |->
               [id |-> create_article_id(entry.link, entry.title, published_date),
                title |-> entry.title,
                url |-> entry.link,
                source |-> source,
                published_date |-> published_date]]

parse_entry(entry, source, at) ==
    IF entry.title = EmptyStr THEN NoArticle
    ELSE IF entry.link = EmptyUrl THEN NoArticle
    ELSE LET published_date == PublishedDate(entry, at)
         IN [ok |-> TRUE,
             article |->
               [id |-> create_article_id(entry.link, entry.title, published_date),
                title |-> entry.title,
                url |-> entry.link,
                source |-> source,
                published_date |-> published_date]]

\* Article.to_dict / VectorStore._article_to_payload
to_dict(article) ==
    [id |-> article.id, title |-> article.title, url |-> article.url,
     source |-> article.source,
     published_date |-> isoformat(article.published_date)]

Head_n(s, n) == SubSeq(s, 1, IF Len(s) < n THEN Len(s) ELSE n)

RECURSIVE ParseAll(_, _, _)
ParseAll(entries, source, at) ==
    IF entries = <<>> THEN <<>>
    ELSE LET r == parse_entry(Head(entries), source, at)
         IN (IF r.ok THEN <<r.article>> ELSE <<>>)
            \o ParseAll(Tail(entries), source, at)

\* a response is what session.get + feedparser.parse give for one source:
\* an exception (timeout, malformed feed), or the feed's entries
Timeout == [error |-> TRUE, cause |-> "timeout", entries |-> <<>>]
Malformed == [error |-> TRUE, cause |-> "malformed", entries |-> <<>>]
Failed == Timeout
Feed(entries) == [error |-> FALSE, cause |-> "none", entries |-> entries]

\* fetch_feed: [raised, articles]
fetch_feed(source, resp, at) ==
    IF resp.error THEN [raised |-> FALSE, articles |-> <<>>]
    ELSE [raised |-> FALSE,
          articles |-> ParseAll(Head_n(resp.entries, MAX_ARTICLES_PER_FEED),
                                source, at)]

-----------------------------------------------------------------------------
(* fetch_all_feeds (feed_parser.py:314-330) *)

RECURSIVE Concat(_)
Concat(lists) ==
    IF lists = <<>> THEN <<>> ELSE Head(lists) \o Concat(Tail(lists))

\* list.sort compares published dates with "<": a list holding a naive and an
\* aware datetime makes it raise TypeError
SortRaises(s) ==
    \E i, j \in 1..Len(s) : ~Comparable(s[i].published_date, s[j].published_date)

RECURSIVE InsertDesc(_, _)
InsertDesc(x, sorted) ==
    IF sorted = <<>> THEN <<x>>
    ELSE IF Before(x.published_date, Head(sorted).published_date)
         THEN <<Head(sorted)>> \o InsertDesc(x, Tail(sorted))
         ELSE <<x>> \o sorted

\* all_articles.sort(key=published_date, reverse=True): stable, newest first
RECURSIVE SortDesc(_)
SortDesc(s) ==
    IF s = <<>> THEN <<>> ELSE InsertDesc(Head(s), SortDesc(Tail(s)))

\* the loop of lines 319-325: per source, whether it was fetched, whether its
\* failure left the loop by an exception, and the articles it contributed
SourceLoop(resps, at) ==
    [i \in 1..Len(RSS_FEEDS) |->
        [fetched |-> TRUE, raised |-> FALSE,
         articles |-> fetch_feed(RSS_FEEDS[i], resps[i], at).articles]]

\* line 328
FinalOrder(all_articles) == SortDesc(all_articles)

\* what a fetch_all_feeds call comes to, given the outcome of its loop, the
\* list the loop built and whether the loop or the sort raised
FetchOutcome(loop, merged, loopRaised, sortRaised) ==
    [raised |-> loopRaised \/ sortRaised,
     cause |-> IF loopRaised THEN "fetch"
               ELSE IF sortRaised THEN "sort" ELSE "none",
     loop |-> loop,
     merged |-> merged,
     articles |-> IF loopRaised \/ sortRaised THEN <<>> ELSE FinalOrder(merged)]

\* lines 327-330: the sort of the list the loop built
SortAndReturn(loop, merged) ==
    FetchOutcome(loop, merged, \E i \in 1..Len(RSS_FEEDS) : loop[i].raised,
                 SortRaises(merged))

\* line 322: all_articles after the loop
AfterSourceLoop(loop) ==
    SortAndReturn(loop, Concat([i \in 1..Len(RSS_FEEDS) |-> loop[i].articles]))

fetch_all_feeds(resps, at) == AfterSourceLoop(SourceLoop(resps, at))

\* save_to_cache calls of fetch_feed (lines 307-309): a source whose fetch gave
\* at least one article has its cache file overwritten, unless the write fails
CacheAfter(old, resps, at, writeFails) ==
    [s \in DOMAIN old |->
        LET i == CHOOSE k \in 1..Len(RSS_FEEDS) : RSS_FEEDS[k] = s
            got == fetch_feed(s, resps[i], at).articles
        IN IF got # <<>> /\ s \notin writeFails
           THEN [k \in 1..Len(got) |-> to_dict(got[k])]
           ELSE old[s]]

-----------------------------------------------------------------------------
(* VectorStore (vector_store.py) over the Qdrant collection *)

Min(a, b) == IF a < b THEN a ELSE b

\* the full URL as a string
UrlString(url) == url.host \o url.path

\* VectorStore._create_article_id: the article's id when it has one, else a
\* hash of url|title|date
point_id(article) ==
    IF article.id # EmptyStr THEN article.id
    ELSE md5(UrlString(article.url) \o <<"|">> \o article.title \o <<"|">>
             \o isoformat(article.published_date))

\* the PointStruct add_articles builds for an article
PointOf(article) ==
    LET pid == point_id(article)
    IN [id |-> pid, payload |-> [to_dict(article) EXCEPT !.id = pid]]

\* a plain insert in place of the upsert
InsertPoint(st, p) == st \cup {p}

\* client.upsert of one point: insert, or overwrite the point of that id
UpsertPoint(st, p) == {q \in st : q.id # p.id} \cup {p}

RECURSIVE Upsert(_, _)
Upsert(st, points) ==
    IF points = <<>> THEN st
    ELSE Upsert(UpsertPoint(st, Head(points)), Tail(points))

NumBatches(n) == (n + batch_size - 1) \div batch_size

\* the articles[i:i+batch_size] slice of batch b (1-based)
Batch(articles, b) ==
    SubSeq(articles, (b - 1) * batch_size + 1,
           Min(b * batch_size, Len(articles)))

\* the loop of add_articles left at the first batch whose upsert raises
RECURSIVE AddBatchesUntilFailure(_, _, _, _, _)
AddBatchesUntilFailure(st, articles, b, failedBatches, embedFailAt) ==
    IF b > NumBatches(Len(articles)) THEN [raised |-> FALSE, store |-> st]
    ELSE IF embedFailAt > (b - 1) * batch_size /\ embedFailAt <= b * batch_size
              /\ embedFailAt <= Len(articles)
         THEN [raised |-> TRUE, store |-> st]
    ELSE IF b \in failedBatches THEN [raised |-> FALSE, store |-> st]
    ELSE AddBatchesUntilFailure(
             Upsert(st, [k \in 1..Len(Batch(articles, b)) |->
                            PointOf(Batch(articles, b)[k])]),
             articles, b + 1, failedBatches, embedFailAt)

\* the loop of add_articles over batches b, b+1, ...: a batch whose upsert
\* raises is logged and dropped; an embedding failure at article number
\* embedFailAt (0: none) is not caught and ends the call
RECURSIVE AddBatches(_, _, _, _, _)
AddBatches(st, articles, b, failedBatches, embedFailAt) ==
    IF b > NumBatches(Len(articles)) THEN [raised |-> FALSE, store |-> st]
    ELSE IF embedFailAt > (b - 1) * batch_size /\ embedFailAt <= b * batch_size
              /\ embedFailAt <= Len(articles)
         THEN [raised |-> TRUE, store |-> st]
    ELSE LET batch == Batch(articles, b)
             points == [k \in 1..Len(batch) |-> PointOf(batch[k])]
             st2 == IF b \in failedBatches THEN st ELSE Upsert(st, points)
         IN AddBatches(st2, articles, b + 1, failedBatches, embedFailAt)

\* VectorStore.add_articles: [raised, store]
add_articles(st, articles, failedBatches, embedFailAt) ==
    IF articles = <<>> THEN [raised |-> FALSE, store |-> st]
    ELSE AddBatches(st, articles, 1, failedBatches, embedFailAt)

\* what client.search may answer for a query without filter: `limit` points
\* of the collection, or all of them when it holds fewer
QdrantHitSets(st, limit) ==
    {S \in SUBSET st : Cardinality(S) = Min(limit, Cardinality(st))}

\* the orders in which the collection may rank a set of hits
Rankings(S) ==
    {r \in [1..Cardinality(S) -> S] : \A i, j \in DOMAIN r : r[i] = r[j] => i = j}

\* one of these orders
RECURSIVE AnyRanking(_)
AnyRanking(S) ==
    IF S = {} THEN <<>>
    ELSE LET x == CHOOSE x \in S : TRUE IN <<x>> \o AnyRanking(S \ {x})

\* the ScoredPoint list of a ranking: the scores fall with the rank
Answer(ranking) ==
    [k \in 1..Len(ranking) |->
        [payload |-> ranking[k].payload, score |-> 100 - k]]

SearchOutcomes == {"ok", "embed_error", "store_error"}

\* article = result.payload; article["score"] = result.score
WithScore(payload, score) ==
    [k \in DOMAIN payload \cup {"score"} |->
        IF k = "score" THEN score ELSE payload[k]]

\* VectorStore.search without its try/except
search_propagating(answer, outcome) ==
    [raised |-> outcome # "ok",
     result |-> IF outcome # "ok" THEN <<>>
                ELSE [k \in 1..Len(answer) |->
                        WithScore(answer[k].payload, answer[k].score)]]

\* VectorStore.search handing the results back last first
search_resorting(answer, outcome) ==
    [raised |-> FALSE,
     result |-> IF outcome # "ok" THEN <<>>
                ELSE [k \in 1..Len(answer) |->
                        WithScore(answer[Len(answer) + 1 - k].payload,
                                  answer[Len(answer) + 1 - k].score)]]

\* VectorStore.search (lines 236-259) for a query without filter: `answer` is
\* what client.search returns when neither the embedding nor the store fails
search(answer, outcome) ==
    [raised |-> FALSE,
     result |-> IF outcome # "ok" THEN <<>>
                ELSE [k \in 1..Len(answer) |->
                        WithScore(answer[k].payload, answer[k].score)]]

Range(f) == {f[x] : x \in DOMAIN f}

\* WeeklyFeedProcessor._get_existing_article_ids over the answer of
\* search("", limit=10000)
get_existing_article_ids(answer, outcome) ==
    LET r == search(answer, outcome)
    IN IF r.raised THEN {} ELSE {a.id : a \in Range(r.result)}

-----------------------------------------------------------------------------
(* WeeklyFeedProcessor.process_feeds (weekly_feed_processor.py:36-83) *)

\* the comparison of line 54 raises TypeError on an aware published date
FilterRaises(all_articles, one_week_ago) ==
    \E k \in 1..Len(all_articles) :
        ~Comparable(all_articles[k].published_date, one_week_ago)

\* the filter of lines 52-55 with ">" in place of ">="
RecentStrict(all_articles, one_week_ago) ==
    SelectSeq(all_articles, LAMBDA a : Before(one_week_ago, a.published_date))

\* lines 52-55
Recent(all_articles, one_week_ago) ==
    SelectSeq(all_articles, LAMBDA a : AtOrAfter(a.published_date, one_week_ago))

\* the filter of lines 63-66 comparing titles in place of ids
NewByTitle(recent_articles, existing_ids) ==
    SelectSeq(recent_articles, LAMBDA a : a.title \notin existing_ids)

\* lines 63-66
New(recent_articles, existing_ids) ==
    SelectSeq(recent_articles, LAMBDA a : a.id \notin existing_ids)

NoStats == [total_fetched |-> 0, recent_articles |-> 0,
            existing_articles |-> 0, new_articles_added |-> 0]

\* the statistics with the recent articles counted as the new ones
ProcessOutcomeCountingRecent(st, resps, at, lookup, fa, recent_articles, existing_ids, new_articles, written, stage) ==
    [op |-> "process_feeds",
     at |-> at,
     one_week_ago |-> MinusDays(at, RECENT_DAYS),
     resps |-> resps,
     stage |-> stage,
     raised |-> stage # "done",
     fetch |-> fa,
     all_articles |-> fa.articles,
     recent_articles |-> recent_articles,
     lookup |-> lookup,
     stored_before |-> {p.payload.id : p \in st},
     existing_ids |-> IF stage \in {"fetch_raised", "filter_raised"}
                      THEN {} ELSE existing_ids,
     new_articles |-> IF stage \in {"fetch_raised", "filter_raised"}
                      THEN <<>> ELSE new_articles,
     handed |-> stage \in {"add_raised", "done"} /\ new_articles # <<>>,
     stats |-> IF stage # "done" THEN NoStats
               ELSE [total_fetched |-> Len(fa.articles),
                     recent_articles |-> Len(recent_articles),
                     existing_articles |-> Cardinality(existing_ids),
                     new_articles_added |-> Len(recent_articles)],
     stored_after |-> {p.payload.id :
                         p \in IF stage \in {"add_raised", "done"}
                               THEN written.store ELSE st},
     store |-> IF stage \in {"add_raised", "done"} THEN written.store ELSE st]

\* the statistics with the fetched and the recent counts taken for each other
ProcessOutcomeSwappingCounts(st, resps, at, lookup, fa, recent_articles, existing_ids, new_articles, written, stage) ==
    [ProcessOutcomeCountingRecent(st, resps, at, lookup, fa, recent_articles,
                                  existing_ids, new_articles, written, stage)
        EXCEPT !.stats = IF stage # "done" THEN NoStats
                         ELSE [total_fetched |-> Len(recent_articles),
                               recent_articles |-> Len(fa.articles),
                               existing_articles |-> Cardinality(existing_ids),
                               new_articles_added |-> Len(new_articles)]]

\* lines 76-83 and the exits by exception: the record of a process_feeds call
ProcessOutcome(st, resps, at, lookup, fa, recent_articles, existing_ids, new_articles, written, stage) ==
    [op |-> "process_feeds",
     at |-> at,
     one_week_ago |-> MinusDays(at, RECENT_DAYS),
     resps |-> resps,
     stage |-> stage,
     raised |-> stage # "done",
     fetch |-> fa,
     all_articles |-> fa.articles,
     recent_articles |-> recent_articles,
     lookup |-> lookup,
     stored_before |-> {p.payload.id : p \in st},
     existing_ids |-> IF stage \in {"fetch_raised", "filter_raised"}
                      THEN {} ELSE existing_ids,
     new_articles |-> IF stage \in {"fetch_raised", "filter_raised"}
                      THEN <<>> ELSE new_articles,
     handed |-> stage \in {"add_raised", "done"} /\ new_articles # <<>>,
     stats |-> IF stage # "done" THEN NoStats
               ELSE [total_fetched |-> Len(fa.articles),
                     recent_articles |-> Len(recent_articles),
                     existing_articles |-> Cardinality(existing_ids),
                     new_articles_added |-> Len(new_articles)],
     stored_after |-> {p.payload.id :
                         p \in IF stage \in {"add_raised", "done"}
                               THEN written.store ELSE st},
     store |-> IF stage \in {"add_raised", "done"} THEN written.store ELSE st]

\* lines 69-74: add_articles has been called on the new articles
AfterAdd(st, resps, at, lookup, fa, filterRaises, recent_articles, existing_ids, new_articles, written) ==
    ProcessOutcome(st, resps, at, lookup, fa, recent_articles, existing_ids,
                   new_articles, written,
                   IF fa.raised THEN "fetch_raised"
                   ELSE IF filterRaises THEN "filter_raised"
                   ELSE IF written.raised THEN "add_raised"
                   ELSE "done")

\* lines 62-72: the dedup filter and the hand-over to add_articles
AfterDedup(st, resps, at, lookup, failedBatches, embedFailAt, fa, filterRaises, recent_articles, existing_ids, new_articles) ==
    AfterAdd(st, resps, at, lookup, fa, filterRaises, recent_articles,
             existing_ids, new_articles,
             add_articles(st, new_articles, failedBatches, embedFailAt))

\* lines 58-66: the existing ids are looked up and the recent list filtered
AfterLookup(st, resps, at, lookup, failedBatches, embedFailAt, fa, filterRaises, recent_articles, existing_ids) ==
    AfterDedup(st, resps, at, lookup, failedBatches, embedFailAt, fa,
               filterRaises, recent_articles, existing_ids,
               New(recent_articles, existing_ids))

\* lines 51-59: the recency filter, then the lookup of the existing ids
AfterFilter(st, resps, at, answer, lookup, failedBatches, embedFailAt, fa, filterRaises) ==
    AfterLookup(st, resps, at, lookup, failedBatches, embedFailAt, fa,
                filterRaises,
                IF filterRaises THEN <<>>
                ELSE Recent(fa.articles, MinusDays(at, RECENT_DAYS)),
                get_existing_article_ids(answer, lookup))

\* lines 48-55: all_articles is fetched and compared with one_week_ago
AfterFetch(st, resps, at, answer, lookup, failedBatches, embedFailAt, fa) ==
    AfterFilter(st, resps, at, answer, lookup, failedBatches, embedFailAt, fa,
                FilterRaises(fa.articles, MinusDays(at, RECENT_DAYS)))

\* process_feeds called at time `at` on collection st.  The inputs are the
\* sources' responses, the answer and outcome of the existing-id search and
\* the failures of add_articles.  stage tells how far the call came:
\* "fetch_raised", "filter_raised", "add_raised" or "done"
process_feeds(st, resps, at, answer, lookup, failedBatches, embedFailAt) ==
    AfterFetch(st, resps, at, answer, lookup, failedBatches, embedFailAt,
               fetch_all_feeds(resps, at))

-----------------------------------------------------------------------------
(* Inputs: titles, URLs and feed entries *)

TitleA == <<"a">>
TitleB == <<"b">>
UrlXa == [host |-> <<"x">>, path |-> <<"/", "a">>]
UrlYa == [host |-> <<"y">>, path |-> <<"/", "a">>]
UrlXb == [host |-> <<"x">>, path |-> <<"/", "b">>]

\* dated by published_parsed: day 1, 00:00:00
eBoundary == Entry(TitleA, UrlXa, <<1, 0>>, NoStruct, NoText, NoText)
\* the same article served from another host
eMirror == Entry(TitleA, UrlYa, <<1, 0>>, NoStruct, NoText, NoText)
\* dated by a free-text date one microsecond before day 1, 00:00:00
eOld == Entry(TitleA, UrlXb, NoStruct, NoStruct,
              Text(DateTime(0, 86399, 999999, FALSE)), NoText)
\* dated by updated_parsed: day 4
eFresh == Entry(TitleB, UrlXa, NoStruct, <<4, 0>>, NoText, NoText)
\* no date at all
eUndated == Entry(TitleB, UrlXb, NoStruct, NoStruct, NoText, NoText)
\* dated by a free-text date with a UTC offset
eAware == Entry(TitleA, UrlXb, NoStruct, NoStruct,
                Text(DateTime(5, 0, 0, TRUE)), NoText)
\* a published text that dateutil cannot parse, and a good updated text
eBadText == Entry(TitleB, UrlYa, NoStruct, NoStruct, BadText,
                  Text(DateTime(6, 0, 0, FALSE)))
\* dated by the updated text alone
eUpdatedText == Entry(TitleA, UrlYa, NoStruct, NoStruct, NoText,
                      Text(DateTime(6, 0, 1, FALSE)))
eNoTitle == Entry(EmptyStr, UrlXa, <<4, 0>>, NoStruct, NoText, NoText)
eNoLink == Entry(TitleA, EmptyUrl, <<4, 0>>, NoStruct, NoText, NoText)

\* the responses the sources give in the ingestion specification
IngestResps ==
    {<<Feed(<<eBoundary, eOld>>), Feed(<<eMirror>>)>>,
     <<Feed(<<eUndated, eFresh>>), Failed>>,
     <<Feed(<<eBoundary, eOld>>), Failed>>,
     <<Feed(<<eUndated, eFresh>>), Feed(<<eAware>>)>>,
     <<Failed, Feed(<<eAware>>)>>}

\* the failures of one add_articles call: the batches whose upsert raises and
\* the article (0: none) whose embedding raises
AddFailures == {<<{}, 0>>, <<{1}, 0>>, <<{}, 1>>}

\* the responses the sources give in the fetch specification
FetchFeeds ==
    {Timeout, Malformed, Feed(<<>>), Feed(<<eFresh>>), Feed(<<eAware>>),
     Feed(<<eBadText>>), Feed(<<eUpdatedText, eNoLink, eBoundary>>),
     Feed(<<eOld, eUndated>>), Feed(<<eAware, eFresh>>)}

FetchResps == {<<c, b>> : c \in FetchFeeds, b \in FetchFeeds}

Sources == Range(RSS_FEEDS)

\* an article as the HTTP layer builds it (api.py:373-382): without id
ApiArticle ==
    [id |-> EmptyStr, title |-> TitleA, url |-> UrlXa, source |-> "company",
     published_date |-> DateTime(5, 0, 0, FALSE)]

\* articles handed to add_articles without the dedup filter: one built by the
\* HTTP layer and one fetched from the first source
DirectBatches ==
    {<<ApiArticle>>
       \o fetch_all_feeds(<<Feed(<<eBoundary>>), Failed>>,
                          DateTime(8, 0, 0, FALSE)).articles}

-----------------------------------------------------------------------------
(* State *)

NoRun == [op |-> "none"]
NoCase == [op |-> "none"]
NoSearch == [op |-> "none"]

EmptyCache == [s \in Sources |-> <<>>]

IdleEntrypoint ==
    /\ mainPc = "off" /\ schedPc = "off" /\ jobs = <<>> /\ hours = 0
    /\ running = {} /\ taskLog = NoRun

entrypointVars == <<mainPc, schedPc, jobs, hours, running, taskLog>>

InitIngest ==
    /\ now = DateTime(8, 0, 0, FALSE)
    /\ store = {}
    /\ cache = EmptyCache
    /\ run = NoRun
    /\ direct = NoRun
    /\ idcase = NoCase
    /\ srch = NoSearch
    /\ IdleEntrypoint

\* the clock moves on by a day
Tick ==
    /\ now.day < MaxDay
    /\ now' = [now EXCEPT !.day = @ + 1]
    /\ UNCHANGED <<store, cache, run, direct, idcase, srch, entrypointVars>>

\* one call of WeeklyFeedProcessor.process_feeds
ProcessFeeds ==
    \E resps \in IngestResps, lookup \in {"ok", "store_error"},
       fail \in AddFailures,
       hits \in QdrantHitSets(store, EXISTING_IDS_LIMIT) :
        \E r \in {process_feeds(store, resps, now, Answer(AnyRanking(hits)),
                                lookup, fail[1], fail[2])} :
           /\ run' = [r EXCEPT !.store = {}]
                       @@ [failedBatches |-> IF r.handed /\ r.stage = "done"
                                             THEN fail[1] ELSE {}]
           /\ store' = r.store
           /\ cache' = CacheAfter(cache, resps, now, {})
           /\ UNCHANGED <<now, direct, idcase, srch, entrypointVars>>

\* one call of VectorStore.add_articles from outside the weekly processor
AddArticles ==
    \E articles \in DirectBatches, fail \in AddFailures :
        \E r \in {add_articles(store, articles, fail[1], fail[2])} :
           /\ store' = r.store
           /\ direct' = [op |-> "add_articles", articles |-> articles,
                         raised |-> r.raised, failed |-> fail[1] # {},
                         replaced |-> \E k \in 1..Len(articles) :
                             \E p \in store :
                                 /\ p.id = point_id(articles[k])
                                 /\ p # PointOf(articles[k])]
           /\ UNCHANGED <<now, cache, run, idcase, srch, entrypointVars>>

NextIngest == Tick \/ ProcessFeeds \/ AddArticles

SpecIngest == InitIngest /\ [][NextIngest]_vars

-----------------------------------------------------------------------------
(* Properties of the ingestion specification *)

StoredIds == {p.id : p \in store}

\* the last process_feeds call came as far as the dedup filter
Deduped == run.op = "process_feeds" /\ run.stage \in {"add_raised", "done"}

\* C1 as stated: process_feeds hands to add_articles exactly the recent
\* articles whose id is not stored in the collection, whatever the outcome of
\* the existing-id lookup.
C1_DedupAgainstStore ==
    Deduped =>
        run.new_articles =
            SelectSeq(run.recent_articles,
                      LAMBDA a : a.id \notin run.stored_before)

\* C1 amended: process_feeds hands to add_articles exactly the recent articles
\* whose id is not among the ids the existing-id lookup returned: the stored
\* ids when the search succeeded (the collection holding at most 10000
\* records), and no id at all when the search failed.
C1_DedupAgainstLookup ==
    Deduped /\ Cardinality(run.stored_before) <= EXISTING_IDS_LIMIT =>
        LET known == IF run.lookup = "ok" THEN run.stored_before ELSE {}
        IN /\ run.existing_ids = known
           /\ run.new_articles =
                SelectSeq(run.recent_articles, LAMBDA a : a.id \notin known)
           /\ run.handed = (run.new_articles # <<>>)

\* the store {A, B}, batch {A, C} case: two stored ids, a recent article that
\* is stored and one that is not, and exactly the latter handed on
C1_Witness ==
    /\ Deduped /\ run.lookup = "ok" /\ run.handed
    /\ Cardinality(run.stored_before) >= 2
    /\ \E k \in 1..Len(run.recent_articles) :
          run.recent_articles[k].id \in run.stored_before
    /\ Len(run.new_articles) < Len(run.recent_articles)

Unique(st) == \A p, q \in st : p.id = q.id => p = q

\* C2: the store holds at most one record per article id; a step that adds
\* only ids already stored leaves the number of records unchanged, and after
\* a successful add_articles call the record of an added id is the added one.
C2_OneRecordPerId ==
    [][/\ Unique(store')
       /\ \A p \in store' : p.payload.id = p.id
       /\ {p.id : p \in store} \subseteq {p.id : p \in store'}
       /\ ({p.id : p \in store'} = {p.id : p \in store}
              => Cardinality(store') = Cardinality(store))
       /\ (direct' # direct /\ ~direct'.failed /\ ~direct'.raised
              => \A k \in 1..Len(direct'.articles) :
                     PointOf(direct'.articles[k]) \in store')]_vars

\* an add_articles call has overwritten the stored record of an id with
\* another record of that id, and the number of records did not change
C2_Witness ==
    /\ direct.op = "add_articles" /\ ~direct.failed /\ ~direct.raised
    /\ direct.replaced
    /\ Cardinality(store) = Len(direct.articles)
    /\ \A k \in 1..Len(direct.articles) : PointOf(direct.articles[k]) \in store

\* the articles a source's response is normalized to at time `at`
Normalized(resps, i, k, at) ==
    parse_entry(resps[i].entries[k], RSS_FEEDS[i], at)

\* C3 as stated, for two process_feeds calls at different times of which the
\* second found the stored ids: an entry served unchanged to both is given
\* the same id by both, and when the collection holds that id the second
\* call does not select the entry as new.
C3_StableIdAcrossRuns ==
    [][(/\ run.op = "process_feeds" /\ run'.op = "process_feeds"
        /\ run'.at # run.at
        /\ run'.stage \in {"add_raised", "done"} /\ run'.lookup = "ok")
       => \A i \in 1..Len(RSS_FEEDS) :
            \A k \in 1..Len(run.resps[i].entries) :
              \A k2 \in 1..Len(run'.resps[i].entries) :
                (/\ run.resps[i].entries[k] = run'.resps[i].entries[k2]
                 /\ Normalized(run.resps, i, k, run.at).ok)
                => LET first == Normalized(run.resps, i, k, run.at).article
                       second == Normalized(run'.resps, i, k2, run'.at).article
                   IN /\ first.id = second.id
                      /\ (first.id \in StoredIds
                            => second \notin Range(run'.new_articles))]_vars

\* one microsecond before t
MicrosecondBefore(t) ==
    IF t.us > 0 THEN [t EXCEPT !.us = @ - 1]
    ELSE IF t.sec > 0 THEN [t EXCEPT !.sec = @ - 1, !.us = 999999]
    ELSE [t EXCEPT !.day = @ - 1, !.sec = 86399, !.us = 999999]

\* the last process_feeds call came past the recency filter
Filtered == run.op = "process_feeds" /\ run.stage \in {"add_raised", "done"}

-----------------------------------------------------------------------------
(* The fetch specification: fetch_all_feeds called on its own *)

\* one call of fetch_all_feeds
FetchAllFeeds ==
    \E resps \in FetchResps, writeFails \in {{}, {"cnn"}} :
        /\ run' = [op |-> "fetch_all_feeds", at |-> now, resps |-> resps,
                   fetch |-> fetch_all_feeds(resps, now)]
        /\ cache' = CacheAfter(cache, resps, now, writeFails)
        /\ UNCHANGED <<now, store, direct, idcase, srch, entrypointVars>>

NextFetch == Tick \/ FetchAllFeeds

SpecFetch == InitIngest /\ [][NextFetch]_vars

Fetched == run.op = "fetch_all_feeds"

\* the articles of source i in a list
OfSource(articles, i) ==
    SelectSeq(articles, LAMBDA a : a.source = RSS_FEEDS[i])

\* the entries of a response that have a title and a link
Usable(resp) ==
    SelectSeq(resp.entries,
              LAMBDA e : e.title # EmptyStr /\ e.link # EmptyUrl)

\* C6 as stated: a source whose fetch times out or whose feed is malformed
\* contributes no article and nothing is raised out of fetch_all_feeds; every
\* other source is fetched in the same call and the result holds one article
\* per usable entry of it.
C6_FailedSourceIsolated ==
    Fetched =>
        \A i \in 1..Len(RSS_FEEDS) :
            run.resps[i].error =>
                /\ OfSource(run.fetch.merged, i) = <<>>
                /\ ~run.fetch.raised
                /\ \A j \in 1..Len(RSS_FEEDS) :
                      ~run.resps[j].error =>
                          /\ run.fetch.loop[j].fetched
                          /\ {<<a.title, a.url>> :
                                a \in Range(OfSource(run.fetch.articles, j))}
                             = {<<e.title, e.link>> :
                                  e \in Range(Usable(run.resps[j]))}

\* the number of times x occurs in list s
Count(s, x) == Cardinality({k \in 1..Len(s) : s[k] = x})

\* C7 as stated: fetch_all_feeds returns without raising a list that holds
\* every article normalized from every source, ordered by non-increasing
\* published timestamp, whichever timestamp source the dates came from.
C7_ReturnsSortedMerge ==
    Fetched =>
        /\ ~run.fetch.raised
        /\ \A a \in Range(run.fetch.merged) :
              Count(run.fetch.articles, a) = Count(run.fetch.merged, a)
        /\ \A k \in 1..Len(run.fetch.articles) - 1 :
              ~Before(run.fetch.articles[k].published_date,
                      run.fetch.articles[k + 1].published_date)

-----------------------------------------------------------------------------
(* The identifier specification: create_article_id applied to two articles *)

IdUrls ==
    {[host |-> h, path |-> q] :
        h \in {<<"x">>, <<"y">>},
        q \in {<<"/", "a">>, <<"/", "a", "_", "b">>, <<"/", "a", "_">>}}

IdTitles == {<<"b">>, <<"b", "_", "c">>, <<"_", "b">>, <<"c">>}

IdDates ==
    {DateTime(1, 0, 0, FALSE), DateTime(1, 0, 1, FALSE),
     DateTime(1, 0, 0, TRUE), DateTime(0, 86399, 999999, FALSE)}

IdInputs == [url : IdUrls, title : IdTitles, published_date : IdDates]

InitId ==
    /\ idcase \in [op : {"input"}, a : IdInputs, b : IdInputs]
    /\ now = DateTime(8, 0, 0, FALSE)
    /\ store = {}
    /\ cache = EmptyCache
    /\ run = NoRun
    /\ direct = NoRun
    /\ srch = NoSearch
    /\ IdleEntrypoint

\* both articles are given their id
CreateIds ==
    /\ idcase.op = "input"
    /\ idcase' =
         [op |-> "ids", a |-> idcase.a, b |-> idcase.b,
          ida |-> create_article_id(idcase.a.url, idcase.a.title,
                                    idcase.a.published_date),
          idb |-> create_article_id(idcase.b.url, idcase.b.title,
                                    idcase.b.published_date)]
    /\ UNCHANGED <<now, store, cache, run, direct, srch, entrypointVars>>

NextId == CreateIds

SpecId == InitId /\ [][NextId]_vars

\* how many of the three fields of x two articles differ in
Differences(x, y, fields) == Cardinality({f \in fields : x[f] # y[f]})

\* C4 as stated: two articles that differ in exactly one of URL, title and
\* published timestamp are given different ids.
C4_OneFieldChangesId ==
    idcase.op = "ids"
    /\ Differences(idcase.a, idcase.b, {"url", "title", "published_date"}) = 1
    => idcase.ida # idcase.idb

\* the articles with the path component in place of the URL
WithPath(x) ==
    [path |-> UrlPath(x.url), title |-> x.title,
     published_date |-> x.published_date]

\* C4 amended: two articles that differ in exactly one of URL path, title and
\* published timestamp are given different ids; articles that agree in all
\* three are given the same id, whatever the rest of their URLs.
C4_OnePathFieldChangesId ==
    idcase.op = "ids" =>
        LET n == Differences(WithPath(idcase.a), WithPath(idcase.b),
                             {"path", "title", "published_date"})
        IN /\ n = 1 => idcase.ida # idcase.idb
           /\ n = 0 => idcase.ida = idcase.idb

\* two articles with different ids that differ in their titles alone, the
\* titles and the path holding the separator character
C4_Witness ==
    /\ idcase.op = "ids"
    /\ idcase.a.url = idcase.b.url
    /\ idcase.a.published_date = idcase.b.published_date
    /\ idcase.a.title = <<"b">> /\ idcase.b.title = <<"b", "_", "c">>
    /\ idcase.a.url.path = <<"/", "a", "_">>
    /\ idcase.ida # idcase.idb

-----------------------------------------------------------------------------
(* The search specification: add_articles and search called by clients *)

\* the articles clients add one at a time
SearchBatches ==
    {<<a>> : a \in {ApiArticle,
                    [ApiArticle EXCEPT !.title = TitleB],
                    [ApiArticle EXCEPT !.url = UrlXb]}}
    \cup DirectBatches

AddForSearch ==
    \E articles \in SearchBatches, fail \in AddFailures :
        \E r \in {add_articles(store, articles, fail[1], fail[2])} :
           /\ store' = r.store
           /\ UNCHANGED <<now, cache, run, direct, idcase, srch, entrypointVars>>

\* one call of VectorStore.search with the empty query and no filter
ClientSearch ==
    \E limit \in {1, 10}, outcome \in SearchOutcomes :
        \E hits \in QdrantHitSets(store, limit) :
            \E ranking \in Rankings(hits) :
                LET r == search(Answer(ranking), outcome)
                IN /\ srch' = [op |-> "search", limit |-> limit,
                               stored |-> Cardinality(store),
                               outcome |-> outcome, raised |-> r.raised,
                               result |-> r.result]
                   /\ UNCHANGED <<now, store, cache, run, direct, idcase,
                                  entrypointVars>>

NextSearch == AddForSearch \/ ClientSearch

SpecSearch == InitIngest /\ [][NextSearch]_vars

\* C10: search never propagates a failure of the embedding model or of the
\* collection: it returns, and what it returns after a failure is the empty
\* list.
C10_SearchSwallowsFailures ==
    srch.op = "search" =>
        /\ ~srch.raised
        /\ (srch.outcome # "ok" => srch.result = <<>>)
        /\ (srch.outcome = "ok" =>
                Len(srch.result) = Min(srch.limit, srch.stored))

\* a search of a collection that holds articles failed in the collection and
\* returned the empty list
C10_Witness ==
    /\ srch.op = "search"
    /\ srch.outcome = "store_error"
    /\ srch.stored >= 2
    /\ ~srch.raised /\ srch.result = <<>>

-----------------------------------------------------------------------------
(* The entrypoint specification (entrypoint.py): the main thread and the    *)
(* run_scheduler thread.  Time is counted in scheduling intervals.          *)

\* the main thread with start_scheduler() moved before the initial run
MainProgramSchedulerFirst == <<"sleep", "start_scheduler", "task", "forever">>

\* the statements of the main thread (lines 68-86), in order
MainProgram == <<"sleep", "task", "start_scheduler", "forever">>

\* process_feeds_task without its try/except
process_feeds_task_uncaught(ctorRaised, r) ==
    [raisedInside |-> ctorRaised \/ r.raised,
     propagated |-> ctorRaised \/ r.raised,
     result |-> IF ctorRaised \/ r.raised THEN "raised" ELSE "stats"]

\* process_feeds_task (lines 39-50) around a process_feeds call with outcome
\* r, or around a WeeklyProcessor() constructor that raised
process_feeds_task(ctorRaised, r) ==
    [raisedInside |-> ctorRaised \/ r.raised,
     propagated |-> FALSE,
     result |-> IF ctorRaised \/ r.raised THEN "None" ELSE "stats"]

\* the responses the sources give in the entrypoint specification
SchedResps ==
    {<<Feed(<<eFresh, eNoTitle>>), Timeout>>, <<Malformed, Feed(<<eAware>>)>>}

NoTask == [op |-> "none", by |-> "none", raisedInside |-> FALSE,
           propagated |-> FALSE, result |-> "none"]

InitSched ==
    /\ now = DateTime(8, 0, 0, FALSE)
    /\ store = {}
    /\ cache = EmptyCache
    /\ run = NoRun
    /\ direct = NoRun
    /\ idcase = NoCase
    /\ srch = NoSearch
    /\ mainPc = 1
    /\ schedPc = "unstarted"
    /\ jobs = <<>>
    /\ hours = 0
    /\ running = {}
    /\ taskLog = NoTask

\* a scheduling interval goes by
HourPasses ==
    /\ hours < MaxHours
    /\ hours' = hours + 1
    /\ now' = [now EXCEPT !.sec = 3600 * (hours + 1)]
    /\ UNCHANGED <<store, cache, run, direct, idcase, srch, mainPc, schedPc,
                   jobs, running, taskLog>>

InTask(thread) == \E t \in running : t.by = thread

\* time.sleep(INITIAL_DELAY_SECONDS)
MainSleep ==
    /\ mainPc \in DOMAIN MainProgram /\ MainProgram[mainPc] = "sleep"
    /\ mainPc' = mainPc + 1
    /\ UNCHANGED <<now, store, cache, run, direct, idcase, srch, schedPc, jobs,
                   hours, running, taskLog>>

\* the main thread enters process_feeds_task
MainBeginTask ==
    /\ mainPc \in DOMAIN MainProgram /\ MainProgram[mainPc] = "task"
    /\ ~InTask("main")
    /\ running' = running \cup {[by |-> "main", since |-> hours]}
    /\ UNCHANGED <<now, store, cache, run, direct, idcase, srch, mainPc,
                   schedPc, jobs, hours, taskLog>>

\* the body of process_feeds_task run by `thread`, up to its return
TaskBody(thread, t) ==
    \/ /\ t = process_feeds_task(TRUE, NoRun)
       /\ UNCHANGED <<store, cache, run>>
    \/ \E resps \in SchedResps, fail \in {<<{}, 0>>, <<{}, 1>>},
          hits \in QdrantHitSets(store, EXISTING_IDS_LIMIT) :
           \E r \in {process_feeds(store, resps, now, Answer(AnyRanking(hits)),
                                   "ok", fail[1], fail[2])} :
              /\ t = process_feeds_task(FALSE, r)
              /\ run' = [r EXCEPT !.store = {}]
              /\ store' = r.store
              /\ cache' = CacheAfter(cache, resps, now, {})

TaskRecord(thread, t) ==
    [op |-> "task", by |-> thread, raisedInside |-> t.raisedInside,
     propagated |-> t.propagated, result |-> t.result]

TaskResults ==
    [raisedInside : BOOLEAN, propagated : BOOLEAN,
     result : {"stats", "None", "raised"}]

\* the main thread leaves process_feeds_task
MainEndTask ==
    /\ InTask("main")
    /\ \E t \in TaskResults :
          /\ TaskBody("main", t)
          /\ taskLog' = TaskRecord("main", t)
          /\ mainPc' = IF t.propagated THEN 0 ELSE mainPc + 1
    /\ running' = {x \in running : x.by # "main"}
    /\ UNCHANGED <<now, direct, idcase, srch, schedPc, jobs, hours>>

\* start_scheduler (lines 52-66): the job is registered to run after the
\* interval and the run_scheduler thread is started
MainStartScheduler ==
    /\ mainPc \in DOMAIN MainProgram /\ MainProgram[mainPc] = "start_scheduler"
    /\ jobs' = Append(jobs, [next_run |-> hours + UPDATE_INTERVAL_HOURS])
    /\ schedPc' = "run_pending"
    /\ mainPc' = mainPc + 1
    /\ UNCHANGED <<now, store, cache, run, direct, idcase, srch, hours,
                   running, taskLog>>

Due == \E k \in 1..Len(jobs) : jobs[k].next_run <= hours

\* schedule.run_pending() finds the job due and runs it in this thread
SchedBeginTask ==
    /\ schedPc = "run_pending" /\ Due
    /\ schedPc' = "task"
    /\ running' = running \cup {[by |-> "sched", since |-> hours]}
    /\ UNCHANGED <<now, store, cache, run, direct, idcase, srch, mainPc, jobs,
                   hours, taskLog>>

\* schedule.run_pending() finds nothing due
SchedNothingDue ==
    /\ schedPc = "run_pending" /\ ~Due
    /\ schedPc' = "sleep"
    /\ UNCHANGED <<now, store, cache, run, direct, idcase, srch, mainPc, jobs,
                   hours, running, taskLog>>

\* the job returns: the schedule library plans its next run an interval from
\* now and run_scheduler goes to sleep; an exception leaving the job ends the
\* thread
SchedEndTask ==
    /\ schedPc = "task"
    /\ \E t \in TaskResults :
          /\ TaskBody("sched", t)
          /\ taskLog' = TaskRecord("sched", t)
          /\ schedPc' = IF t.propagated THEN "dead" ELSE "sleep"
          /\ jobs' = IF t.propagated THEN jobs
                     ELSE [k \in 1..Len(jobs) |->
                             [next_run |-> hours + UPDATE_INTERVAL_HOURS]]
    /\ running' = {x \in running : x.by # "sched"}
    /\ UNCHANGED <<now, direct, idcase, srch, mainPc, hours>>

\* time.sleep(60) is over
SchedWake ==
    /\ schedPc = "sleep"
    /\ schedPc' = "run_pending"
    /\ UNCHANGED <<now, store, cache, run, direct, idcase, srch, mainPc, jobs,
                   hours, running, taskLog>>

NextSched ==
    \/ HourPasses
    \/ MainSleep \/ MainBeginTask \/ MainEndTask \/ MainStartScheduler
    \/ SchedBeginTask \/ SchedNothingDue \/ SchedEndTask \/ SchedWake

SpecSched == InitSched /\ [][NextSched]_vars

\* C8: at most one execution of process_feeds_task is in progress at any
\* time, also while a run outlasts the scheduling interval.
C8_OneRunAtATime == Cardinality(running) <= 1

\* a scheduled run has been in progress for a whole interval, its job being
\* due again
C8_Witness ==
    /\ \E t \in running :
          t.by = "sched" /\ hours >= t.since + UPDATE_INTERVAL_HOURS
    /\ Due

\* C9: an exception raised inside a run is caught by process_feeds_task,
\* which returns None; neither thread ends, the job stays registered and is
\* planned again, and whenever run_pending finds the job due it starts a run.
C9_SchedulerSurvivesFailures ==
    [][/\ schedPc' # "dead"
       /\ mainPc' # 0
       /\ (taskLog' # taskLog /\ taskLog'.raisedInside
              => /\ taskLog'.result = "None"
                 /\ ~taskLog'.propagated)
       /\ (schedPc = "task" /\ schedPc' # "task"
              => /\ schedPc' = "sleep"
                 /\ Len(jobs') = 1
                 /\ jobs'[1].next_run = hours + UPDATE_INTERVAL_HOURS)
       /\ (schedPc = "run_pending" /\ schedPc' # "run_pending" /\ Due
              => schedPc' = "task" /\ InTask("sched")')]_vars

\* the last scheduled run raised inside and returned None, and the next
\* scheduled run has started
C9_Witness ==
    /\ taskLog.by = "sched"
    /\ taskLog.raisedInside /\ taskLog.result = "None"
    /\ run.op = "process_feeds" /\ run.raised
    /\ schedPc = "task" /\ InTask("sched")

-----------------------------------------------------------------------------
(* The HTTP layer (api.py): build_filter_dict and the search endpoints.     *)
(* A request parameter is [present, text]: request.args.get gives None for  *)
(* a parameter that is not in the query string.                             *)

DEFAULT_LIMIT == 10
\* scores are counted in hundredths: the default min_score "0.35"
DEFAULT_MIN_SCORE == 35

Absent == [present |-> FALSE, text |-> <<>>]
Given(text) == [present |-> TRUE, text |-> text]

\* Python truth of an optional string: neither None nor "".  Dates are
\* written as token sequences, names (sources, categories) as plain strings
Truthy(p) == p.present /\ p.text # <<>>
TruthyName(p) == p.present /\ p.text # ""
AbsentName == [present |-> FALSE, text |-> ""]

\* the numbers that date texts are written with
DateNumbers == 0..9 \cup {43200, 55800, 86399, 999999}

IsNumber(tok) == \E n \in DateNumbers : ToString(n) = tok
NumberOf(tok) == CHOOSE n \in DateNumbers : ToString(n) = tok

\* date.replace('Z', '+00:00')
ReplaceZ(text) ==
    [k \in 1..Len(text) |-> IF text[k] = "Z" THEN "+00:00" ELSE text[k]]

NoDate == [ok |-> FALSE, t |-> DateTime(0, 0, 0, FALSE)]

\* datetime.fromisoformat without an offset: a date, a date and a time, or a
\* date and a time with microseconds; anything else is a ValueError
ParseNaive(text) ==
    IF Len(text) = 1 /\ IsNumber(text[1])
    THEN [ok |-> TRUE, t |-> DateTime(NumberOf(text[1]), 0, 0, FALSE)]
    ELSE IF Len(text) = 3 /\ IsNumber(text[1]) /\ text[2] = "T"
            /\ IsNumber(text[3])
    THEN [ok |-> TRUE,
          t |-> DateTime(NumberOf(text[1]), NumberOf(text[3]), 0, FALSE)]
    ELSE IF Len(text) = 5 /\ IsNumber(text[1]) /\ text[2] = "T"
            /\ IsNumber(text[3]) /\ text[4] = "." /\ IsNumber(text[5])
    THEN [ok |-> TRUE,
          t |-> DateTime(NumberOf(text[1]), NumberOf(text[3]),
                         NumberOf(text[5]), FALSE)]
    ELSE NoDate

\* the value of a text that ended in an offset: aware, with that tzinfo
ParsedAware(parsed, off) ==
    IF parsed.ok
    THEN [ok |-> TRUE,
          t |-> [day |-> parsed.t.day, sec |-> parsed.t.sec, us |-> parsed.t.us,
                 aware |-> TRUE, off |-> off]]
    ELSE NoDate

\* datetime.fromisoformat: [ok, t]; an offset may only follow a time
fromisoformat(text) ==
    IF Len(text) >= 4 /\ text[Len(text)] \in DOMAIN Offsets
    THEN ParsedAware(ParseNaive(SubSeq(text, 1, Len(text) - 1)),
                     Offsets[text[Len(text)]])
    ELSE ParseNaive(text)

\* filter_date.replace(hour=0, minute=0, second=0, microsecond=0)
start_of_day(t) == [t EXCEPT !.sec = 0, !.us = 0]

\* filter_date.replace(hour=23, minute=59, second=59, microsecond=999999)
end_of_day(t) == [t EXCEPT !.sec = 86399, !.us = 999999]

\* a dictionary without keys
EmptyDict == [k \in {} |-> {}]

\* the values of a filter dictionary
StrValue(text) == [kind |-> "str", str |-> text]
ListValue(items) == [kind |-> "list", items |-> items]
DictValue(ops) == [kind |-> "dict", ops |-> ops]

\* the "on" range with the end of the day left open one microsecond early
DateConditionOpenEnd(filter_date, date_operand) ==
    IF date_operand = "before"
    THEN "$lt" :> isoformat(filter_date)
    ELSE IF date_operand = "after"
    THEN "$gt" :> isoformat(filter_date)
    ELSE IF date_operand = "on_or_before" \/ date_operand = "<="
    THEN "$lte" :> isoformat(filter_date)
    ELSE IF date_operand = "on_or_after" \/ date_operand = ">="
    THEN "$gte" :> isoformat(filter_date)
    ELSE ("$gte" :> isoformat(start_of_day(filter_date)))
         @@ ("$lt" :> isoformat(end_of_day(filter_date)))

\* lines 81-96: the published_date_filter of a parsed date
DateCondition(filter_date, date_operand) ==
    IF date_operand = "before"
    THEN "$lt" :> isoformat(filter_date)
    ELSE IF date_operand = "after"
    THEN "$gt" :> isoformat(filter_date)
    ELSE IF date_operand = "on_or_before" \/ date_operand = "<="
    THEN "$lte" :> isoformat(filter_date)
    ELSE IF date_operand = "on_or_after" \/ date_operand = ">="
    THEN "$gte" :> isoformat(filter_date)
    ELSE ("$gte" :> isoformat(start_of_day(filter_date)))
         @@ ("$lte" :> isoformat(end_of_day(filter_date)))

\* build_filter_dict with the ValueError of the date swallowed: the date
\* filter is left out
FilterOfParsedLenient(base, parsed, date_operand) ==
    IF ~parsed.ok THEN [is_none |-> FALSE, dict |-> base]
    ELSE [is_none |-> FALSE,
          dict |-> base @@ ("published_date_filter" :>
                              DictValue(DateCondition(parsed.t, date_operand)))]

\* lines 75-102: the date is added to the source and category filters, or
\* None is returned when it does not parse
FilterOfParsed(base, parsed, date_operand) ==
    IF ~parsed.ok THEN [is_none |-> TRUE, dict |-> EmptyDict]
    ELSE [is_none |-> FALSE,
          dict |-> base @@ ("published_date_filter" :>
                              DictValue(DateCondition(parsed.t, date_operand)))]

\* lines 64-72: the source and category filters
BaseFilter(source, category) ==
    (IF TruthyName(source) THEN "source" :> StrValue(source.text)
     ELSE EmptyDict)
    @@ (IF TruthyName(category) THEN "categories" :> ListValue(<<category.text>>)
        ELSE EmptyDict)

\* build_filter_dict: [is_none, dict]
build_filter_dict(source, category, date, date_operand) ==
    IF Truthy(date)
    THEN FilterOfParsed(BaseFilter(source, category),
                        fromisoformat(ReplaceZ(date.text)), date_operand)
    ELSE [is_none |-> FALSE, dict |-> BaseFilter(source, category)]

-----------------------------------------------------------------------------
(* VectorStore.search with filters (vector_store.py:183-247) and the Qdrant *)
(* side of the query                                                       *)

\* filter_obj = None
NoFilter == [none |-> TRUE, must |-> {}, should |-> {}]

\* DatetimeRange(**datetime_range_params): the bounds, parsed to datetimes
DatetimeRange(ops) ==
    [k \in DOMAIN ops \cap {"$lt", "$gt", "$gte", "$lte"} |->
        fromisoformat(ops[k]).t]

\* lines 187-229: the conditions a key of the filter dictionary gives
Conditions(key, value) ==
    IF key = "published_date_filter"
    THEN (IF value.kind = "dict"
          THEN {[key |-> "published_date", type |-> "range",
                 range |-> DatetimeRange(value.ops)]}
          ELSE {})
    ELSE IF value.kind = "list"
    THEN {[key |-> key, type |-> "any", any |-> Range(value.items)]}
    ELSE {[key |-> key, type |-> "value", value |-> value.str]}

\* the conditions of a filter dictionary put into "should": any one of them
\* is enough
FilterObjectAnyOf(filter_dict) ==
    IF DOMAIN filter_dict = {} THEN NoFilter
    ELSE [none |-> FALSE, must |-> {},
          should |-> UNION {Conditions(key, filter_dict[key]) :
                              key \in DOMAIN filter_dict}]

\* lines 184-234: filter_obj
FilterObject(filter_dict) ==
    IF DOMAIN filter_dict = {} THEN NoFilter
    ELSE [none |-> FALSE,
          must |-> UNION {Conditions(key, filter_dict[key]) :
                            key \in DOMAIN filter_dict},
          should |-> {}]

\* a wall-clock reading moved west by off seconds
ShiftBack(t, off) ==
    IF t.sec - off < 0
    THEN DateTime(t.day - 1, t.sec - off + 86400, t.us, FALSE)
    ELSE IF t.sec - off >= 86400
    THEN DateTime(t.day + 1, t.sec - off - 86400, t.us, FALSE)
    ELSE DateTime(t.day, t.sec - off, t.us, FALSE)

\* the instant of a datetime, as a UTC reading
ToUTC(t) == ShiftBack(t, utcoffset(t))

\* Qdrant reads a datetime payload without offset as UTC
PayloadInstant(text) == ToUTC(fromisoformat(text).t)

\* Qdrant: a range condition on a datetime payload compares instants
InRange(t, range) ==
    /\ ("$lt" \in DOMAIN range => Before(t, ToUTC(range["$lt"])))
    /\ ("$gt" \in DOMAIN range => Before(ToUTC(range["$gt"]), t))
    /\ ("$gte" \in DOMAIN range => ~Before(t, ToUTC(range["$gte"])))
    /\ ("$lte" \in DOMAIN range => ~Before(ToUTC(range["$lte"]), t))

\* the values of a payload field: the elements of an array, or the value
FieldValues(payload, key) ==
    IF key = "categories" THEN Range(payload.categories) ELSE {payload[key]}

\* Qdrant: a payload satisfies a condition
Satisfies(payload, cond) ==
    IF cond.type = "range"
    THEN InRange(PayloadInstant(payload.published_date), cond.range)
    ELSE IF cond.type = "any"
    THEN FieldValues(payload, cond.key) \cap cond.any # {}
    ELSE cond.value \in FieldValues(payload, cond.key)

\* Qdrant: a payload passes a filter
Passes(payload, filter_obj) ==
    \/ filter_obj.none
    \/ /\ \A cond \in filter_obj.must : Satisfies(payload, cond)
       /\ (filter_obj.should # {}
             => \E cond \in filter_obj.should : Satisfies(payload, cond))

\* the queries of the model and the cosine score, in hundredths, of each
\* stored article for each of them
Queries == {"", "ai"}

Similarity(query, id) ==
    IF query = ""
    THEN (CASE id = "A" -> 34 [] id = "B" -> 90 [] id = "C" -> 35
            [] id = "D" -> 10 [] OTHER -> 60)
    ELSE (CASE id = "A" -> 80 [] id = "B" -> 36 [] id = "C" -> 20
            [] id = "D" -> 50 [] OTHER -> 35)

\* score_threshold = None
NoThreshold == [none |-> TRUE, v |-> 0]
Threshold(v) == [none |-> FALSE, v |-> v]

\* Qdrant: the points that may be returned for a query
Candidates(st, query, filter_obj, score_threshold) ==
    {p \in st : /\ Passes(p.payload, filter_obj)
                /\ (score_threshold.none
                      \/ Similarity(query, p.id) >= score_threshold.v)}

\* Qdrant: the candidates by falling score
RECURSIVE ByScore(_, _)
ByScore(S, query) ==
    IF S = {} THEN <<>>
    ELSE LET best == CHOOSE p \in S :
                        \A q \in S : Similarity(query, q.id)
                                       <= Similarity(query, p.id)
         IN <<[payload |-> best.payload, score |-> Similarity(query, best.id)]>>
            \o ByScore(S \ {best}, query)

\* client.search(query_vector, limit, query_filter, score_threshold) when the
\* store answers
client_search(st, query, limit, filter_obj, score_threshold) ==
    Head_n(ByScore(Candidates(st, query, filter_obj, score_threshold), query),
           limit)

\* VectorStore.search(query, limit, filter_dict, min_score)
search_filtered(st, query, limit, filter_dict, min_score, outcome) ==
    search(client_search(st, query, limit, FilterObject(filter_dict), min_score),
           outcome)

-----------------------------------------------------------------------------
(* The search endpoint of api.py (lines 181-213; search_company_articles,   *)
(* lines 319-351, is the same code over the company collection)            *)

\* int(request.args.get("limit", "10")): [ok, v]; not ok is a ValueError
ParseLimit(p) ==
    IF ~p.present THEN [ok |-> TRUE, v |-> DEFAULT_LIMIT]
    ELSE IF \E n \in 0..100 : ToString(n) = p.text
    THEN [ok |-> TRUE, v |-> CHOOSE n \in 0..100 : ToString(n) = p.text]
    ELSE [ok |-> FALSE, v |-> 0]

\* the score texts of the model and their values in hundredths
ScoreTexts == ("0" :> 0) @@ ("0.35" :> 35) @@ ("0.5" :> 50)

\* float(request.args.get("min_score")) with no default: None when absent
ParseMinScoreNoDefault(p) ==
    IF ~p.present THEN [ok |-> TRUE, threshold |-> NoThreshold]
    ELSE IF p.text \in DOMAIN ScoreTexts
    THEN [ok |-> TRUE, threshold |-> Threshold(ScoreTexts[p.text])]
    ELSE [ok |-> FALSE, threshold |-> NoThreshold]

\* float(request.args.get("min_score", "0.35")): [ok, threshold]
ParseMinScore(p) ==
    IF ~p.present THEN [ok |-> TRUE, threshold |-> Threshold(DEFAULT_MIN_SCORE)]
    ELSE IF p.text \in DOMAIN ScoreTexts
    THEN [ok |-> TRUE, threshold |-> Threshold(ScoreTexts[p.text])]
    ELSE [ok |-> FALSE, threshold |-> NoThreshold]

\* a response of the endpoint and what it asked of VectorStore.search
Response(status, success, results, called, limit, threshold, filter_dict) ==
    [status |-> status, success |-> success, count |-> Len(results),
     results |-> results, called |-> called, limit |-> limit,
     threshold |-> threshold, filter_dict |-> filter_dict]

\* an exception that leaves the view function: Flask answers 500
Unhandled == Response(500, FALSE, <<>>, FALSE, 0, NoThreshold, EmptyDict)

\* lines 203-213
SearchAndRespond(limit, threshold, filter_dict, r) ==
    IF r.raised
    THEN Response(500, FALSE, <<>>, TRUE, limit, threshold, filter_dict)
    ELSE Response(200, TRUE, r.result, TRUE, limit, threshold, filter_dict)

\* lines 194-205
RespondToFilter(st, req, outcome, limit, threshold, f) ==
    IF f.is_none
    THEN Response(400, FALSE, <<>>, FALSE, limit, threshold, EmptyDict)
    ELSE SearchAndRespond(limit, threshold, f.dict,
                          search_filtered(st, req.query, limit, f.dict,
                                          threshold, outcome))

\* lines 185-194
RespondToParsed(st, req, outcome, limit, min_score) ==
    IF ~limit.ok \/ ~min_score.ok THEN Unhandled
    ELSE RespondToFilter(st, req, outcome, limit.v, min_score.threshold,
                         build_filter_dict(req.source, req.category, req.date,
                                           req.date_operand))

\* search_articles
search_articles(st, req, outcome) ==
    RespondToParsed(st, req, outcome, ParseLimit(req.limit),
                    ParseMinScore(req.min_score))

\* the stored articles of the search specification
ApiPoint(id, source, categories, published_date) ==
    [id |-> id,
     payload |-> [id |-> id, title |-> <<id>>, url |-> UrlXa, source |-> source,
                  categories |-> categories,
                  published_date |-> isoformat(published_date)]]

StoredPool ==
    <<ApiPoint("A", "cnn", <<"tech">>, DateTime(5, 0, 0, FALSE)),
      ApiPoint("B", "cnn", <<"world", "tech">>, DateTime(5, 86399, 999999, FALSE)),
      ApiPoint("C", "bbc", <<"tech">>, DateTime(6, 0, 0, FALSE)),
      ApiPoint("D", "cnn", <<>>, DateTime(4, 86399, 999999, FALSE)),
      ApiPoint("E", "bbc", <<"world">>, DateTime(5, 43200, 0, TRUE))>>

Request(query, limit, min_score, source, category, date, date_operand) ==
    [query |-> query, limit |-> limit, min_score |-> min_score,
     source |-> source, category |-> category, date |-> date,
     date_operand |-> date_operand]

\* date texts: a date, a date and a time, a time with Z, and texts that
\* datetime.fromisoformat rejects
GoodDates == {<<"5">>, <<"5", "T", "55800">>, <<"5", "T", "55800", "Z">>,
              <<"5", "T", "0", ".", "1", "+00:00">>,
              <<"5", "T", "43200", "+05:00">>}
BadDates == {<<"n", "o", "w">>, <<"5", "Z">>, <<"5", "T">>}
DateOperands == {"on", "before", "after", "on_or_before", "on_or_after",
                 "<=", ">=", "same_day"}

\* the requests of the search specification
ApiRequests ==
    {Request(q, l, m, AbsentName, AbsentName, Absent, "on") :
        q \in Queries, l \in {Absent, Given("1"), Given("3"), Given("x")},
        m \in {Absent, Given("0"), Given("0.5"), Given("high")}}
    \cup {Request("", Absent, Given("0"), AbsentName, AbsentName, Given(d), o) :
            d \in GoodDates \cup BadDates \cup {<<>>}, o \in DateOperands}
    \cup {Request("ai", l, m, s, c, d, "on") :
            l \in {Absent, Given("x")}, m \in {Given("0"), Absent},
            s \in {AbsentName, Given("cnn"), Given("")},
            c \in {AbsentName, Given("tech")},
            d \in {Absent, Given(<<"5">>), Given(<<"5", "Z">>)}}

\* the collection fails only under requests without filters
Outcomes(req) ==
    IF Truthy(req.date) \/ req.source.present \/ req.category.present
    THEN {"ok"} ELSE {"ok", "store_error"}

InitApi ==
    /\ now = DateTime(8, 0, 0, FALSE)
    /\ store = {}
    /\ cache = EmptyCache
    /\ run = NoRun
    /\ direct = NoRun
    /\ idcase = NoCase
    /\ srch = NoSearch
    /\ IdleEntrypoint

\* an article of the pool is written to the collection; the response of an
\* earlier request is no longer looked at
StoreArticle ==
    /\ Cardinality(store) < Len(StoredPool)
    /\ store' = UpsertPoint(store, StoredPool[Cardinality(store) + 1])
    /\ srch' = NoSearch
    /\ UNCHANGED <<now, cache, run, direct, idcase, entrypointVars>>

\* GET /api/search
SearchArticles ==
    \E req \in ApiRequests : \E outcome \in Outcomes(req) :
        /\ srch' = [op |-> "search_articles", req |-> req, outcome |-> outcome,
                    resp |-> search_articles(store, req, outcome)]
        /\ UNCHANGED <<now, store, cache, run, direct, idcase, entrypointVars>>

NextApi == StoreArticle \/ SearchArticles

SpecApi == InitApi /\ [][NextApi]_vars

Searched == srch.op = "search_articles"

\* the request carries a date text that datetime.fromisoformat rejects
DateUnparseable(req) ==
    Truthy(req.date) /\ ~fromisoformat(ReplaceZ(req.date.text)).ok

RequestDate(req) == fromisoformat(ReplaceZ(req.date.text)).t

\* a request with a date that parses and the operand "on", answered from a
\* collection that answered, with no article lost to the limit or the score
OnDayAnswered ==
    /\ Searched /\ Truthy(srch.req.date)
    /\ fromisoformat(ReplaceZ(srch.req.date.text)).ok
    /\ srch.req.date_operand = "on"
    /\ ~TruthyName(srch.req.source) /\ ~TruthyName(srch.req.category)
    /\ srch.req.min_score = Given("0") /\ srch.req.limit = Absent
    /\ srch.outcome = "ok" /\ srch.resp.status = 200

ResultIds == {srch.resp.results[k].id : k \in 1..Len(srch.resp.results)}

\* the stored articles published on the given day of the calendar read at
\* off seconds east of UTC
PublishedOnDay(day, off) ==
    {p.id : p \in {q \in store :
        ShiftBack(PayloadInstant(q.payload.published_date), 0 - off).day = day}}

\* C12 as stated: with the operand "on" and a date D the articles matched are
\* exactly those published in the UTC day of D.
C12_OnMatchesUtcDay ==
    OnDayAnswered => ResultIds = PublishedOnDay(RequestDate(srch.req).day, 0)

\* C12: with the operand "on" and a date D the articles matched are exactly
\* those published in the calendar day of D read in D's own UTC offset, which
\* is the UTC day when D carries no offset, Z or +00:00: from 00:00:00 to
\* 23:59:59.999999 of that day, both included, and not 00:00:00 of the next.
C12_OnMatchesDayOfOffset ==
    OnDayAnswered =>
        ResultIds = PublishedOnDay(RequestDate(srch.req).day,
                                   utcoffset(RequestDate(srch.req)))

\* a date without offset was asked for: the articles of 00:00:00 and of
\* 23:59:59.999999 of that day came back, the article of 00:00:00 of the next
\* day and the one of the last microsecond of the day before did not
C12_Witness ==
    /\ OnDayAnswered /\ srch.req.date.text = <<"5">>
    /\ Cardinality(store) = Len(StoredPool)
    /\ {"A", "B"} \subseteq ResultIds
    /\ ResultIds \cap {"C", "D"} = {}


\* the request's date condition, read off the published instant of a payload
DateHolds(payload, d, operand) ==
    IF operand = "before" THEN Before(PayloadInstant(payload.published_date), ToUTC(d))
    ELSE IF operand = "after" THEN Before(ToUTC(d), PayloadInstant(payload.published_date))
    ELSE IF operand \in {"on_or_before", "<="}
    THEN ~Before(ToUTC(d), PayloadInstant(payload.published_date))
    ELSE IF operand \in {"on_or_after", ">="}
    THEN ~Before(PayloadInstant(payload.published_date), ToUTC(d))
    ELSE ShiftBack(PayloadInstant(payload.published_date), 0 - utcoffset(d)).day = d.day

\* the payload meets every condition the request supplies
MeetsAll(payload, req) ==
    /\ TruthyName(req.source) => payload.source = req.source.text
    /\ TruthyName(req.category) =>
          \E k \in 1..Len(payload.categories) : payload.categories[k] = req.category.text
    /\ Truthy(req.date) => DateHolds(payload, RequestDate(req), req.date_operand)

Supplies(req) ==
    TruthyName(req.source) \/ TruthyName(req.category) \/ Truthy(req.date)

Answered == Searched /\ srch.outcome = "ok" /\ srch.resp.status = 200

\* C13: every article the search returns meets all the supplied conditions
\* at once (source, category, date), and where neither the limit nor the score
\* threshold cut the answer short, the articles returned are exactly the stored
\* ones that meet them: all stored articles when no condition is supplied.
C13_AllConditionsAtOnce ==
    Answered =>
        /\ \A k \in 1..Len(srch.resp.results) :
              /\ MeetsAll(srch.resp.results[k], srch.req)
              /\ \E p \in store : p.id = srch.resp.results[k].id
        /\ (srch.req.min_score = Given("0") /\ srch.req.limit = Absent
              => ResultIds = {p.id : p \in {q \in store : MeetsAll(q.payload, srch.req)}})

\* a search with a source, a category and a date returned the two articles that
\* meet all three, the collection holding articles that meet only one or two
C13_Witness ==
    /\ Answered /\ Cardinality(store) = Len(StoredPool)
    /\ srch.req.source = Given("cnn") /\ srch.req.category = Given("tech")
    /\ srch.req.date = Given(<<"5">>) /\ srch.req.min_score = Given("0")
    /\ ResultIds = {"A", "B"}

\* a search that supplies no condition returned every stored article
C13_NoConditionWitness ==
    /\ Answered /\ ~Supplies(srch.req) /\ Cardinality(store) = Len(StoredPool)
    /\ srch.req.min_score = Given("0") /\ srch.req.limit = Absent
    /\ Len(srch.resp.results) = Len(StoredPool)


\* a request answered from a collection that answered, its min_score a number
\* or absent, its limit the default one, larger than the collection
ScoreAnswered ==
    /\ Answered /\ srch.req.limit = Absent
    /\ Cardinality(store) <= DEFAULT_LIMIT

\* the stored articles that meet the request's conditions and score at least v
MeetingWithScore(v) ==
    {p.id : p \in {q \in store : /\ MeetsAll(q.payload, srch.req)
                                 /\ Similarity(srch.req.query, q.id) >= v}}

\* C14 as stated: results are discarded for their score only when the request
\* supplies a threshold, and then exactly those below it; a request without a
\* threshold receives results of any score.
C14_ThresholdOnlyWhenSupplied ==
    ScoreAnswered =>
        ResultIds = IF srch.req.min_score.present
                    THEN MeetingWithScore(ScoreTexts[srch.req.min_score.text])
                    ELSE MeetingWithScore(0)

\* C14: the search endpoints always hand a threshold to VectorStore.search,
\* the request's min_score or 0.35 when the request supplies none, and exactly
\* the results scoring below that threshold are discarded for their score;
\* VectorStore.search called without a threshold discards none.
C14_ThresholdOrDefault ==
    /\ ScoreAnswered =>
          ResultIds = IF srch.req.min_score.present
                      THEN MeetingWithScore(ScoreTexts[srch.req.min_score.text])
                      ELSE MeetingWithScore(DEFAULT_MIN_SCORE)
    /\ \A q \in Queries :
          Len(search_filtered(store, q, DEFAULT_LIMIT, EmptyDict, NoThreshold,
                              "ok").result) = Cardinality(store)

\* a request without min_score lost the article scoring 0.34 and kept the one
\* scoring 0.35; the collection holds both
C14_Witness ==
    /\ ScoreAnswered /\ Cardinality(store) = Len(StoredPool)
    /\ ~srch.req.min_score.present /\ srch.req.query = "" /\ ~Supplies(srch.req)
    /\ "A" \notin ResultIds /\ "C" \in ResultIds

\* a request with min_score 0.5 kept exactly the articles scoring 0.5 or more
C14_SuppliedWitness ==
    /\ ScoreAnswered /\ Cardinality(store) = Len(StoredPool)
    /\ srch.req.min_score = Given("0.5") /\ srch.req.query = "ai"
    /\ ResultIds = {"A", "D"}


\* a request with the empty query and no filter, answered 200
EmptyQueryAnswered ==
    /\ Searched /\ srch.resp.status = 200
    /\ srch.req.query = "" /\ ~Supplies(srch.req)

\* what client.search hands back for the request when the store answers
StoreAnswer ==
    client_search(store, srch.req.query, srch.resp.limit, NoFilter,
                  srch.resp.threshold)

\* the stored articles scoring at least the threshold in force
ScoringEnough ==
    {p \in store : srch.resp.threshold.none
                     \/ Similarity(srch.req.query, p.id) >= srch.resp.threshold.v}

\* C15 as stated: a search with the empty query and no filters returns
\* min(limit, number of stored articles) articles, in the store's order.
C15_EmptyQueryReturnsMinLimitStored ==
    EmptyQueryAnswered =>
        /\ Len(srch.resp.results) = Min(srch.resp.limit, Cardinality(store))
        /\ \A k \in 1..Len(srch.resp.results) :
              k <= Len(StoreAnswer)
                /\ srch.resp.results[k].id = StoreAnswer[k].payload.id

\* C15: a search with the empty query and no filters returns, when the store
\* answers, the first min(limit, n) articles of the store's ranking, n being
\* the number of stored articles that score at least the threshold in force
\* (all of them when VectorStore.search is called without threshold), each with
\* its payload and score and in the store's order, by falling score; when the
\* store fails it returns none.
C15_EmptyQueryReturnsStoreAnswer ==
    /\ EmptyQueryAnswered /\ srch.outcome = "ok" =>
          /\ Len(srch.resp.results)
               = Min(srch.resp.limit, Cardinality(ScoringEnough))
          /\ srch.resp.count = Len(srch.resp.results)
          /\ \A k \in 1..Len(srch.resp.results) :
                /\ srch.resp.results[k]
                     = WithScore(StoreAnswer[k].payload, StoreAnswer[k].score)
                /\ \E p \in ScoringEnough :
                      /\ p.id = srch.resp.results[k].id
                      /\ Similarity("", p.id) = srch.resp.results[k].score
                /\ k > 1 => srch.resp.results[k - 1].score
                              >= srch.resp.results[k].score
          /\ \A p \in ScoringEnough :
                p.id \in ResultIds
                  \/ /\ Len(srch.resp.results) = srch.resp.limit
                     /\ \A k \in 1..Len(srch.resp.results) :
                           srch.resp.results[k].score >= Similarity("", p.id)
    /\ EmptyQueryAnswered /\ srch.outcome # "ok" => srch.resp.results = <<>>
    /\ \A l \in {1, 3, DEFAULT_LIMIT} :
          Len(search_filtered(store, "", l, EmptyDict, NoThreshold, "ok").result)
            = Min(l, Cardinality(store))

\* the empty query with limit 3 on five stored articles, four of which score
\* at least the default threshold: the three best came back, best first
C15_Witness ==
    /\ EmptyQueryAnswered /\ srch.outcome = "ok"
    /\ Cardinality(store) = Len(StoredPool)
    /\ srch.req.limit = Given("3") /\ ~srch.req.min_score.present
    /\ Len(srch.resp.results) = 3
    /\ srch.resp.results[1].id = "B" /\ srch.resp.results[2].id = "E"
    /\ srch.resp.results[3].id = "C"

-----------------------------------------------------------------------------
(* The list and search endpoints of the FastAPI application                 *)
(* (archive/app.py), which page the answer of the store                    *)

\* limit: int = Query(10, ge=1, le=100)
LIMIT_MIN == 1
LIMIT_MAX == 100
\* query: str = Query(..., min_length=2)
QUERY_MIN_LENGTH == 2

\* ArticleModel(**article): the fields of the model, the score left out
ArticleModel(article) ==
    [k \in DOMAIN article \ {"score"} |-> article[k]]

\* articles[skip:limit], the offset forgotten in the end of the slice
SliceToLimit(articles, skip, limit) ==
    IF skip >= Min(Len(articles), limit) THEN <<>>
    ELSE SubSeq(articles, skip + 1, Min(Len(articles), limit))

\* articles[skip:skip + limit]
Slice(articles, skip, limit) ==
    IF skip >= Len(articles) THEN <<>>
    ELSE SubSeq(articles, skip + 1, Min(Len(articles), skip + limit))

\* the 422 of FastAPI's parameter validation: the handler is not entered
Unprocessable == [status |-> 422, articles |-> <<>>, count |-> 0, asked |-> 0]

\* ArticleResponse(articles=[...], count=len(paginated_articles))
ArticleResponse(paginated_articles, asked) ==
    [status |-> 200,
     articles |-> [k \in 1..Len(paginated_articles) |->
                     ArticleModel(paginated_articles[k])],
     count |-> Len(paginated_articles), asked |-> asked]

PageParametersValid(limit, skip) ==
    limit >= LIMIT_MIN /\ limit <= LIMIT_MAX /\ skip >= 0

\* GET /api/news
get_news(st, limit, skip, outcome) ==
    IF ~PageParametersValid(limit, skip) THEN Unprocessable
    ELSE ArticleResponse(
             Slice(search_filtered(st, "", limit + skip, EmptyDict, NoThreshold,
                                   outcome).result, skip, limit),
             limit + skip)

\* lines 253-257: filter_dict of search_news; the category is put as a string
NewsFilter(source, category) ==
    (IF TruthyName(source) THEN "source" :> StrValue(source.text) ELSE EmptyDict)
    @@ (IF TruthyName(category) THEN "categories" :> StrValue(category.text)
        ELSE EmptyDict)

\* the number of characters of the queries of the model
QueryLength(query) == CASE query = "" -> 0 [] query = "a" -> 1 [] OTHER -> 2

\* GET /api/news/search
search_news(st, query, limit, skip, source, category, outcome) ==
    IF ~PageParametersValid(limit, skip) \/ QueryLength(query) < QUERY_MIN_LENGTH
    THEN Unprocessable
    ELSE ArticleResponse(
             Slice(search_filtered(st, query, limit + skip,
                                   NewsFilter(source, category), NoThreshold,
                                   outcome).result, skip, limit),
             limit + skip)

\* the page parameters of the model
Limits == {0, 1, 2, 3, 101}
Skips == {0, 1, 2, 3, 5}

PageRequest(query, limit, skip, source, category) ==
    [query |-> query, limit |-> limit, skip |-> skip, source |-> source,
     category |-> category]

\* GET /api/news?limit=&skip=
GetNews ==
    \E limit \in Limits, skip \in Skips, outcome \in {"ok", "store_error"} :
        /\ srch' = [op |-> "get_news",
                    req |-> PageRequest("", limit, skip, AbsentName, AbsentName),
                    outcome |-> outcome,
                    resp |-> get_news(store, limit, skip, outcome)]
        /\ UNCHANGED <<now, store, cache, run, direct, idcase, entrypointVars>>

\* GET /api/news/search?query=&limit=&skip=&source=&category=
SearchNews ==
    \E query \in {"a", "ai"}, limit \in Limits, skip \in Skips,
       source \in {AbsentName, Given("cnn")},
       category \in {AbsentName, Given("tech")} :
        /\ srch' = [op |-> "search_news",
                    req |-> PageRequest(query, limit, skip, source, category),
                    outcome |-> "ok",
                    resp |-> search_news(store, query, limit, skip, source,
                                         category, "ok")]
        /\ UNCHANGED <<now, store, cache, run, direct, idcase, entrypointVars>>

NextPage == StoreArticle \/ GetNews \/ SearchNews

SpecPage == InitApi /\ [][NextPage]_vars

\* the answer of the store to the request when asked for n results
Ranking(n) ==
    search_filtered(store, srch.req.query, n,
                    IF srch.op = "get_news" THEN EmptyDict
                    ELSE NewsFilter(srch.req.source, srch.req.category),
                    NoThreshold, srch.outcome).result

\* the page the same endpoint gives for the same request at another offset
PageAt(skip) ==
    IF srch.op = "get_news"
    THEN get_news(store, srch.req.limit, skip, srch.outcome).articles
    ELSE search_news(store, srch.req.query, srch.req.limit, skip,
                     srch.req.source, srch.req.category, srch.outcome).articles

Paged == srch.op \in {"get_news", "search_news"} /\ srch.resp.status = 200

\* C16: for limit L and offset S the endpoints ask the store for L+S results
\* and return the elements S..S+L-1 (counted from 0) of that ranking, at most
\* L of them; the pages at S, S+L and S+2L of an unchanged ranking, put end to
\* end, are the ranking from position S on: no element twice, none skipped.
C16_PageIsSliceOfRanking ==
    Paged =>
        /\ srch.resp.asked = srch.req.limit + srch.req.skip
        /\ Len(srch.resp.articles) <= srch.req.limit
        /\ srch.resp.count = Len(srch.resp.articles)
        /\ \A k \in 1..srch.req.limit :
              IF srch.req.skip + k <= Len(Ranking(srch.resp.asked))
              THEN /\ k <= Len(srch.resp.articles)
                   /\ srch.resp.articles[k]
                        = ArticleModel(Ranking(srch.resp.asked)[srch.req.skip + k])
              ELSE k > Len(srch.resp.articles)
        /\ srch.resp.articles \o PageAt(srch.req.skip + srch.req.limit)
             \o PageAt(srch.req.skip + 2 * srch.req.limit)
           = [k \in 1..(Min(Len(Ranking(Cardinality(store))),
                            srch.req.skip + 3 * srch.req.limit)
                        - Min(Len(Ranking(Cardinality(store))), srch.req.skip)) |->
                 ArticleModel(Ranking(Cardinality(store))[srch.req.skip + k])]

\* the second page of two of a list of five: the third and fourth articles of
\* the ranking
C16_Witness ==
    /\ Paged /\ srch.op = "get_news" /\ srch.outcome = "ok"
    /\ Cardinality(store) = Len(StoredPool)
    /\ srch.req.limit = 2 /\ srch.req.skip = 2
    /\ srch.resp.asked = 4
    /\ Len(srch.resp.articles) = 2
    /\ srch.resp.articles[1].id = "C" /\ srch.resp.articles[2].id = "A"

-----------------------------------------------------------------------------
(* parse_entry over the attributes of a feedparser entry: title, link,      *)
(* content and summary (feed_parser.py:190-222)                             *)

REMOVE_HTML_TAGS == TRUE
MAX_SUMMARY_LENGTH == 200

\* an attribute of an entry: missing, or present with a value
Missing == [has |-> FALSE, value |-> <<>>]
Attr(value) == [has |-> TRUE, value |-> value]

\* getattr(entry, name, default)
getattr(attr, default) == IF attr.has THEN attr.value ELSE default

\* the img tags of the texts, with their src attribute
ImgSrc ==
    ("<img a>" :> Attr(<<"a">>)) @@ ("<img b>" :> Attr(<<"b">>)) @@ ("<img>" :> Missing)

\* texts are sequences of characters; a tag is written as one token
Tags == {"<p>", "</p>", "<br>"} \cup DOMAIN ImgSrc

\* a text of n characters, the k-th being the last digit of k
Digits(n) == [k \in 1..n |-> ToString(k % 10)]

\* a character that is neither markup nor white space
Ink(html, i) == html[i] \notin Tags \cup {" "}

\* the text node a position lies in: from after the last tag before it to
\* before the next tag after it
NodeStart(html, i) ==
    IF \A k \in 1..i : html[k] \notin Tags THEN 1
    ELSE 1 + CHOOSE k \in 1..i :
                 html[k] \in Tags /\ \A m \in (k + 1)..i : html[m] \notin Tags

NodeEnd(html, i) ==
    IF \A k \in i..Len(html) : html[k] \notin Tags THEN Len(html)
    ELSE (CHOOSE k \in i..Len(html) :
              html[k] \in Tags /\ \A m \in i..(k - 1) : html[m] \notin Tags) - 1

\* str.strip() of a text node: white space stays only between its characters
Kept(html, i) ==
    \/ Ink(html, i)
    \/ /\ html[i] = " "
       /\ \E a \in NodeStart(html, i)..(i - 1) : Ink(html, a)
       /\ \E b \in (i + 1)..NodeEnd(html, i) : Ink(html, b)

\* the first character of a text node that follows another text node
OpensLaterNode(html, i) ==
    /\ Ink(html, i)
    /\ \A a \in NodeStart(html, i)..(i - 1) : ~Ink(html, a)
    /\ \E a \in 1..(i - 1) : Ink(html, a)

\* what a position contributes to get_text(separator=" ", strip=True)
Contribution(html, i) ==
    IF ~Kept(html, i) THEN <<>>
    ELSE IF OpensLaterNode(html, i) THEN <<" ", html[i]>>
    ELSE <<html[i]>>

RECURSIVE TextBetween(_, _, _)
TextBetween(html, lo, hi) ==
    IF lo > hi THEN <<>>
    ELSE IF lo = hi THEN Contribution(html, lo)
    ELSE TextBetween(html, lo, (lo + hi) \div 2)
         \o TextBetween(html, (lo + hi) \div 2 + 1, hi)

\* clean_html
clean_html(html_content) ==
    IF html_content = <<>> THEN <<>>
    ELSE TextBetween(html_content, 1, Len(html_content))

\* if REMOVE_HTML_TAGS and text: text = clean_html(text)
CleanIfNeeded(text) ==
    IF REMOVE_HTML_TAGS /\ text # <<>> THEN clean_html(text) ELSE text

\* lines 203-213
EntryContent(entry) ==
    CleanIfNeeded(IF entry.content.has THEN entry.content.value
                  ELSE IF entry.description.has THEN entry.description.value
                  ELSE IF entry.summary.has THEN entry.summary.value
                  ELSE <<>>)

\* the summary cut when it has MAX_SUMMARY_LENGTH characters already
TruncateAtLength(summary) ==
    IF summary # <<>> /\ Len(summary) >= MAX_SUMMARY_LENGTH
    THEN SubSeq(summary, 1, MAX_SUMMARY_LENGTH) \o <<".", ".", ".">>
    ELSE summary

\* lines 221-222
Truncate(summary) ==
    IF summary # <<>> /\ Len(summary) > MAX_SUMMARY_LENGTH
    THEN SubSeq(summary, 1, MAX_SUMMARY_LENGTH) \o <<".", ".", ".">>
    ELSE summary

\* lines 216-222
EntrySummary(entry, content) ==
    Truncate(CleanIfNeeded(getattr(entry.summary, content)))

\* the title, link and dates of an entry as parse_entry reads them
EntryRead(entry) ==
    Entry(getattr(entry.title, EmptyStr), getattr(entry.link, EmptyUrl),
          entry.published_parsed, NoStruct, NoText, NoText)

WithTexts(parsed, content, summary) ==
    IF ~parsed.ok THEN NoArticle
    ELSE [ok |-> TRUE,
          article |-> [k \in DOMAIN parsed.article \cup {"content", "summary"} |->
                          IF k = "content" THEN content
                          ELSE IF k = "summary" THEN summary
                          ELSE parsed.article[k]]]

\* parse_entry with the content and the summary of the Article it returns
parse_entry_texts(entry, source, at) ==
    WithTexts(parse_entry(EntryRead(entry), source, at), EntryContent(entry),
              EntrySummary(entry, EntryContent(entry)))

\* the entries of the parsing specification
SummaryTexts ==
    {<<>>, Digits(1), Digits(199), Digits(200), Digits(201), Digits(250),
     <<"<p>">> \o Digits(200) \o <<"</p>">>,
     <<"<p>">> \o Digits(201) \o <<"<br>">>,
     <<"<p>">> \o Digits(100) \o <<"</p>", "<p>">> \o Digits(100) \o <<"</p>">>,
     <<" ">> \o Digits(200) \o <<" ", " ">>}

FeedEntry(title, link, content, description, summary) ==
    [title |-> title, link |-> link, content |-> content,
     description |-> description, summary |-> summary,
     published_parsed |-> <<5, 0>>]

FeedEntries ==
    {FeedEntry(t, l, Missing, Missing, s) :
        t \in {Missing, Attr(EmptyStr), Attr(TitleA)},
        l \in {Missing, Attr(EmptyUrl), Attr(UrlXa)},
        s \in {Missing} \cup {Attr(x) : x \in SummaryTexts}}
    \cup {FeedEntry(Attr(TitleA), Attr(UrlXa), c, d, s) :
            c \in {Missing, Attr(Digits(201))},
            d \in {Missing, Attr(<<"<p>", "1", "2", "</p>">>)},
            s \in {Missing, Attr(Digits(3)),
                   Attr(<<"<p>">> \o Digits(201) \o <<"<br>">>)}}

\* fetch_feed hands one entry of a feed to parse_entry
ParseEntry ==
    \E entry \in FeedEntries :
        /\ run' = [op |-> "parse_entry", entry |-> entry,
                   r |-> parse_entry_texts(entry, "cnn", now)]
        /\ UNCHANGED <<now, store, cache, direct, idcase, srch, entrypointVars>>

NextParse == ParseEntry

SpecParse == InitApi /\ [][NextParse]_vars

Parsed == run.op = "parse_entry"

LacksTitleOrLink(entry) ==
    \/ ~entry.title.has \/ entry.title.value = EmptyStr
    \/ ~entry.link.has \/ entry.link.value = EmptyUrl

\* C17: parse_entry returns no Article for an entry whose title or link is
\* absent or empty, and every Article it returns has a non-empty title and a
\* non-empty url, those of the entry.
C17_TitleAndLinkMandatory ==
    Parsed =>
        /\ LacksTitleOrLink(run.entry) => ~run.r.ok
        /\ run.r.ok => /\ run.r.article.title # EmptyStr
                       /\ run.r.article.url # EmptyUrl
                       /\ run.r.article.title = run.entry.title.value
                       /\ run.r.article.url = run.entry.link.value

\* an entry with a title, texts and no link attribute was discarded
C17_Witness ==
    /\ Parsed /\ run.entry.title = Attr(TitleA) /\ ~run.entry.link.has
    /\ run.entry.summary.has /\ ~run.r.ok

\* the summary as it reaches the truncation: the summary attribute, or the
\* content when the entry has none, without its markup
SummaryText ==
    CleanIfNeeded(getattr(run.entry.summary, run.r.article.content))

Plain(text) == \A k \in 1..Len(text) : text[k] \notin Tags \cup {" "}

\* C18: a summary longer than 200 characters becomes its first 200 characters
\* followed by "...", 203 characters in all; a summary of 200 characters or
\* fewer is left as it is. The summary is the text without markup, which for a
\* plain text is the text of the entry itself.
C18_SummaryTruncation ==
    Parsed /\ run.r.ok =>
        \A text \in {SummaryText} :
            /\ Len(text) > MAX_SUMMARY_LENGTH =>
                  /\ Len(run.r.article.summary) = MAX_SUMMARY_LENGTH + 3
                  /\ \A k \in 1..MAX_SUMMARY_LENGTH :
                        run.r.article.summary[k] = text[k]
                  /\ \A k \in 1..3 :
                        run.r.article.summary[MAX_SUMMARY_LENGTH + k] = "."
            /\ Len(text) <= MAX_SUMMARY_LENGTH =>
                  run.r.article.summary = text
            /\ run.entry.summary.has /\ Plain(run.entry.summary.value) =>
                  text = run.entry.summary.value

\* a plain summary of 201 characters came out as 203: the 200th character
\* kept, the 201st replaced by the ellipsis
C18_Witness ==
    /\ Parsed /\ run.r.ok /\ run.entry.summary = Attr(Digits(201))
    /\ Len(run.r.article.summary) = 203
    /\ run.r.article.summary[200] = "0" /\ run.r.article.summary[201] = "."

\* a summary of exactly 200 characters came out unchanged
C18_BoundaryWitness ==
    /\ Parsed /\ run.r.ok /\ run.entry.summary = Attr(Digits(200))
    /\ run.r.article.summary = Digits(200)

-----------------------------------------------------------------------------
(* The API process of archive/app.py: fetch_news_task run at startup, by    *)
(* the scheduler thread and as a background task of POST /api/news/fetch   *)

\* the specification follows this many POST /api/news/fetch requests
MaxFetchRequests == 2

\* an execution of fetch_news_task, named by the thread that runs it
Execution(who, n) == [who |-> who, n |-> n]

\* fetch_news_task catches every exception of the fetch and the store and logs
\* it (lines 66-74): the outcomes of the executions that ended
Logged(log, outcome) ==
    [op |-> "log",
     outcomes |-> (IF log = NoRun THEN <<>> ELSE log.outcomes) \o <<outcome>>]

TaskOutcomes == {"done", "error_logged"}

\* startup_event: fetch_news_task() is called in the event loop, which serves
\* no request before the startup has ended
StartupFetch ==
    /\ mainPc = "off"
    /\ mainPc' = "startup"
    /\ running' = running \cup {Execution("startup", 0)}
    /\ UNCHANGED <<now, store, cache, run, direct, idcase, srch, schedPc, jobs,
                   hours, taskLog>>

\* the startup fetch ends; start_scheduler() starts the scheduler thread and
\* the application begins to serve
StartupDone ==
    \E outcome \in TaskOutcomes :
        /\ mainPc = "startup"
        /\ mainPc' = "serving"
        /\ schedPc' = "waiting"
        /\ running' = running \ {Execution("startup", 0)}
        /\ taskLog' = Logged(taskLog, outcome)
        /\ UNCHANGED <<now, store, cache, run, direct, idcase, srch, jobs, hours>>

\* run_scheduler: schedule.run_pending() finds the hourly job due and calls
\* fetch_news_task in the scheduler thread
SchedulerRuns ==
    /\ schedPc = "waiting" /\ hours < MaxHours
    /\ hours' = hours + 1
    /\ schedPc' = "running"
    /\ running' = running \cup {Execution("scheduler", 0)}
    /\ UNCHANGED <<now, store, cache, run, direct, idcase, srch, mainPc, jobs,
                   taskLog>>

\* the scheduled execution ends; the thread goes back to sleep
SchedulerDone ==
    \E outcome \in TaskOutcomes :
        /\ schedPc = "running"
        /\ schedPc' = "waiting"
        /\ running' = running \ {Execution("scheduler", 0)}
        /\ taskLog' = Logged(taskLog, outcome)
        /\ UNCHANGED <<now, store, cache, run, direct, idcase, srch, mainPc, jobs,
                       hours>>

\* POST /api/news/fetch: background_tasks.add_task(fetch_news_task), and the
\* response is returned
FetchNews ==
    /\ mainPc = "serving" /\ Len(jobs) < MaxFetchRequests
    /\ jobs' = Append(jobs, "added")
    /\ UNCHANGED <<now, store, cache, run, direct, idcase, srch, mainPc, schedPc,
                   hours, running, taskLog>>

\* the background task of a request starts: fetch_news_task is a plain
\* function, which Starlette runs in a thread of its pool
BackgroundTaskStarts ==
    \E n \in 1..Len(jobs) :
        /\ jobs[n] = "added"
        /\ jobs' = [jobs EXCEPT ![n] = "running"]
        /\ running' = running \cup {Execution("background", n)}
        /\ UNCHANGED <<now, store, cache, run, direct, idcase, srch, mainPc,
                       schedPc, hours, taskLog>>

BackgroundTaskDone ==
    \E n \in 1..Len(jobs), outcome \in TaskOutcomes :
        /\ jobs[n] = "running"
        /\ jobs' = [jobs EXCEPT ![n] = "ended"]
        /\ running' = running \ {Execution("background", n)}
        /\ taskLog' = Logged(taskLog, outcome)
        /\ UNCHANGED <<now, store, cache, run, direct, idcase, srch, mainPc,
                       schedPc, hours>>

NextArchive ==
    \/ StartupFetch \/ StartupDone \/ SchedulerRuns \/ SchedulerDone
    \/ FetchNews \/ BackgroundTaskStarts \/ BackgroundTaskDone

SpecArchive == InitApi /\ [][NextArchive]_vars

\* C19: at most one execution of fetch_news_task is in progress at any time,
\* whether started at startup, by the scheduler thread or by the manual fetch
\* endpoint.
C19_OneFetchTaskAtATime == Cardinality(running) <= 1

-----------------------------------------------------------------------------
(* add_articles over lists of more than one batch                           *)

\* the longest list handed to add_articles in the batch specification
MaxArticles == 21

\* the k-th article of a fetch: the articles differ in the path of their url
FetchedArticle(k) ==
    parse_entry(Entry(TitleA, [host |-> <<"x">>, path |-> <<"/", ToString(k)>>],
                      <<5, 0>>, NoStruct, NoText, NoText),
                "cnn", DateTime(8, 0, 0, FALSE)).article

FetchedArticles(n) == [k \in 1..n |-> FetchedArticle(k)]

\* the lists of the batch specification: less than a batch, a full batch, a
\* batch and one article, and the longest list
ArticleLists ==
    {FetchedArticles(n) : n \in {3, batch_size, batch_size + 1, MaxArticles}}

\* the batches whose upsert raises, and the article (0: none) whose embedding
\* raises
BatchFailures ==
    {<<f, e>> : f \in {{}, {1}, {2}, {1, 3}, {2, 3}}, e \in {0, batch_size + 5}}

\* one call of add_articles
AddManyArticles ==
    \E articles \in ArticleLists, fail \in BatchFailures :
        \E r \in {add_articles(store, articles, fail[1], fail[2])} :
           /\ store' = r.store
           /\ direct' = [op |-> "add_many", articles |-> articles,
                         failedBatches |-> fail[1], embedFailAt |-> fail[2],
                         before |-> store, raised |-> r.raised]
           /\ UNCHANGED <<now, cache, run, idcase, srch, entrypointVars>>

NextBatch == AddManyArticles

SpecBatch == InitApi /\ [][NextBatch]_vars

AddedMany == direct.op = "add_many"

\* the batch the k-th article of a list falls in
BatchNo(k) == (k - 1) \div batch_size + 1

\* the embedding of an article of the list raised
EmbeddingRaised ==
    direct.embedFailAt # 0 /\ direct.embedFailAt <= Len(direct.articles)

\* the loop came to the upsert of batch b
UpsertReached(b) == ~EmbeddingRaised \/ b < BatchNo(direct.embedFailAt)

\* C20: when the upsert of a batch of 10 fails no article of that batch is
\* added to the store, the failure does not leave add_articles, and every
\* later batch is upserted and stored when its own upsert succeeds. (Only a
\* failing embedding, which is not an upsert, ends the call.)
C20_FailedBatchDroppedOthersStored ==
    AddedMany =>
        /\ direct.raised = EmbeddingRaised
        /\ \A k \in 1..Len(direct.articles) :
              IF UpsertReached(BatchNo(k)) /\ BatchNo(k) \notin direct.failedBatches
              THEN PointOf(direct.articles[k]) \in store
              ELSE \A p \in store :
                      p.id = point_id(direct.articles[k]) => p \in direct.before
        /\ direct.before \subseteq store

\* 21 articles to an empty store, the upsert of the second batch failing: the
\* first ten and the twenty-first are stored, the ten of the second batch are
\* not, and the call returned
C20_Witness ==
    /\ AddedMany /\ direct.before = {} /\ ~direct.raised
    /\ Len(direct.articles) = MaxArticles /\ direct.failedBatches = {2}
    /\ Cardinality(store) = MaxArticles - batch_size
    /\ PointOf(direct.articles[1]) \in store
    /\ PointOf(direct.articles[batch_size + 1]) \notin store
    /\ PointOf(direct.articles[MaxArticles]) \in store

-----------------------------------------------------------------------------
(* The statistics of process_feeds *)

\* a process_feeds call that returned its statistics
Returned == run.op = "process_feeds" /\ run.stage = "done"

\* the number of records by which the store grew during the run
Growth == Cardinality(run.stored_after) - Cardinality(run.stored_before)

\* C21 as stated: the new_articles_added count equals the number of records by
\* which the store grew during that run.
C21_CountEqualsGrowth ==
    Returned => run.stats.new_articles_added = Growth

\* the ids of the new articles are pairwise different
DistinctIds(articles) ==
    \A i, j \in 1..Len(articles) : articles[i].id = articles[j].id => i = j

\* C21: new_articles_added is the number of articles handed to add_articles,
\* the recent articles whose id the lookup did not return; the store grows by
\* at most that number, and by exactly that number when the lookup returned
\* the stored ids, the new articles have different ids and every upsert
\* succeeded.
C21_CountBoundsGrowth ==
    Returned =>
        /\ run.stats.new_articles_added
             = Cardinality({k \in 1..Len(run.recent_articles) :
                               run.recent_articles[k].id \notin run.existing_ids})
        /\ Growth <= run.stats.new_articles_added
        /\ Growth >= 0
        /\ (/\ run.existing_ids = run.stored_before
            /\ DistinctIds(run.new_articles)
            /\ run.failedBatches = {})
              => Growth = run.stats.new_articles_added

\* a run whose only batch failed to be upserted reports two new articles and
\* leaves the store as it was
C21_Witness ==
    /\ Returned /\ run.failedBatches = {1}
    /\ run.stats.new_articles_added = 2 /\ Growth = 0

\* a run on an empty store, every upsert succeeding, reports the growth
C21_GrowthWitness ==
    /\ Returned /\ run.failedBatches = {} /\ run.stored_before = {}
    /\ run.stats.new_articles_added = 2 /\ Growth = 2

-----------------------------------------------------------------------------
(* VectorStore.get_all_articles (vector_store.py:261-318) and the stats      *)
(* endpoint that counts its result (api.py:269-298)                         *)

page_size == 100
get_all_limit == 1000

\* a collection of n records, with the ids 1..n
Collection(n) == {[id |-> k, payload |-> [id |-> k]] : k \in 1..n}

\* the sizes of the collections of the scroll specification
CollectionSizes ==
    {0, 1, 50, page_size - 1, page_size, page_size + 1, 150, 2 * page_size,
     250, 5 * page_size, get_all_limit - 1, get_all_limit}

\* offset=None, and a next_page_offset of None
NoOffset == 0

\* Qdrant scroll(limit, offset): the records by rising id from the offset on,
\* `limit` of them at most, and the id of the record after them, or None when
\* there is none
scroll(st, limit, offset) ==
    [points |-> [k \in 1..Min(limit, Cardinality(st) + 1
                                       - (IF offset = NoOffset THEN 1 ELSE offset)) |->
                    [id |-> k - 1 + (IF offset = NoOffset THEN 1 ELSE offset)]],
     next |-> IF (IF offset = NoOffset THEN 1 ELSE offset) + limit <= Cardinality(st)
              THEN (IF offset = NoOffset THEN 1 ELSE offset) + limit
              ELSE NoOffset]

\* the state of a get_all_articles call
Scrolling(articles, offset, scrolls) ==
    [op |-> "get_all_articles", pc |-> "scroll", articles |-> articles,
     offset |-> offset, scrolls |-> scrolls, failed |-> FALSE]

ReturnedAll(articles, scrolls, failed) ==
    [op |-> "get_all_articles", pc |-> "returned", articles |-> articles,
     offset |-> NoOffset, scrolls |-> scrolls, failed |-> failed]

\* lines 298-313: what one turn of the loop does with the page it scrolled
AfterPage(call, page) ==
    IF page.points = <<>>
    THEN ReturnedAll(call.articles, call.scrolls + 1, FALSE)
    ELSE IF Len(page.points) < page_size
    THEN ReturnedAll(call.articles \o page.points, call.scrolls + 1, FALSE)
    ELSE IF Len(call.articles \o page.points) >= get_all_limit
    THEN ReturnedAll(call.articles \o page.points, call.scrolls + 1, FALSE)
    ELSE Scrolling(call.articles \o page.points, page.next, call.scrolls + 1)

InitScroll ==
    /\ now = DateTime(8, 0, 0, FALSE)
    /\ store \in {Collection(n) : n \in CollectionSizes}
    /\ cache = EmptyCache
    /\ run = NoRun
    /\ direct = NoRun
    /\ idcase = NoCase
    /\ srch = NoSearch
    /\ IdleEntrypoint

\* get_all_articles is called: lines 263-286, up to the loop
GetAllArticles ==
    /\ srch = NoSearch \/ (srch.op = "get_all_articles" /\ srch.pc = "counted")
    /\ \E outcome \in {"ok", "store_error"} :
          srch' = IF outcome # "ok" THEN ReturnedAll(<<>>, 0, TRUE)
                  ELSE IF Cardinality(store) = 0 THEN ReturnedAll(<<>>, 0, FALSE)
                  ELSE Scrolling(<<>>, NoOffset, 0)
    /\ UNCHANGED <<now, store, cache, run, direct, idcase, entrypointVars>>

\* one turn of the while loop: a page is scrolled, or the scroll raises
ScrollPage ==
    /\ srch.op = "get_all_articles" /\ srch.pc = "scroll"
    /\ \E outcome \in {"ok", "store_error"} :
          srch' = IF outcome # "ok" THEN ReturnedAll(<<>>, srch.scrolls + 1, TRUE)
                  ELSE AfterPage(srch, scroll(store, page_size, srch.offset))
    /\ UNCHANGED <<now, store, cache, run, direct, idcase, entrypointVars>>

\* get_stats: "total_articles": len(articles)
GetStats ==
    /\ srch.op = "get_all_articles" /\ srch.pc = "returned"
    /\ srch' = [srch EXCEPT !.pc = "counted"]
           @@ [total_articles |-> Len(srch.articles)]
    /\ UNCHANGED <<now, store, cache, run, direct, idcase, entrypointVars>>

NextScroll == GetAllArticles \/ ScrollPage \/ GetStats

SpecScroll == InitScroll /\ [][NextScroll]_vars

\* C22: for a collection of up to `limit` records get_all_articles, the store
\* answering every call, returns each stored record exactly once, and the
\* stats endpoint's total_articles is the number of stored records.
C22_EachRecordOnce ==
    srch.op = "get_all_articles" /\ srch.pc \in {"returned", "counted"}
      /\ ~srch.failed =>
        /\ Len(srch.articles) = Cardinality(store)
        /\ \A p \in store : \E k \in 1..Len(srch.articles) : srch.articles[k].id = p.id
        /\ srch.pc = "counted" => srch.total_articles = Cardinality(store)

-----------------------------------------------------------------------------
(* parse_entry: the published date, the categories and the image of an      *)
(* entry (feed_parser.py:224-267)                                            *)

\* str.lower() of a path token
Lower(tok) == IF tok = "Tech" THEN "tech" ELSE IF tok = "AI" THEN "ai" ELSE tok

\* the keyword table of categorize_by_url
common_categories ==
    [tech |-> {"tech", "technology", "digital", "gadgets", "computers", "software", "ai"},
     business |-> {"business", "finance", "economy", "markets", "money", "investing"},
     politics |-> {"politics", "government", "election", "policy", "congress"},
     health |-> {"health", "medical", "medicine", "wellness", "covid", "disease"},
     science |-> {"science", "research", "space", "environment", "climate"},
     sports |-> {"sports", "football", "soccer", "basketball", "baseball", "nfl", "nba", "mlb"},
     entertainment |-> {"entertainment", "movies", "tv", "music", "celebrity", "hollywood"},
     world |-> {"world", "international", "global", "europe", "asia", "africa"}]

\* [p for p in path.split("/") if p], of the lowered path
path_parts(url) ==
    {Lower(UrlPath(url)[i]) : i \in {k \in 1..Len(UrlPath(url)) : UrlPath(url)[k] # "/"}}

\* categorize_by_url: the set that list(set(categories)) lists in some order
categorize_by_url(url) ==
    {category \in DOMAIN common_categories :
        \E part \in path_parts(url) : part \in common_categories[category]}

\* the lists a set can be listed as
Listings(S) ==
    {l \in [1..Cardinality(S) -> S] : \A x \in S : \E i \in DOMAIN l : l[i] = x}

\* a tag without a term, a media item without a medium
NoTerm == [has |-> FALSE, value |-> ""]
NoMedium == [has |-> FALSE, value |-> ""]

HasTerm(tag) == tag.has

\* [tag.term for tag in entry.tags if hasattr(tag, "term")]
Terms(tags) ==
    [i \in 1..Len(SelectSeq(tags, HasTerm)) |-> SelectSeq(tags, HasTerm)[i].value]

\* lines 246-251 with the categories field read whenever the tags give no term
TagsOrCategoriesField(entry) ==
    IF entry.tags.has /\ Terms(entry.tags.value) # <<>> THEN Terms(entry.tags.value)
    ELSE IF entry.categories.has THEN entry.categories.value
    ELSE <<>>

\* lines 246-251: the categories before the URL is looked at
TagsOrCategories(entry) ==
    IF entry.tags.has THEN Terms(entry.tags.value)
    ELSE IF entry.categories.has THEN entry.categories.value
    ELSE <<>>

\* lines 246-255; `listing` is the order list(set(...)) gives the URL's categories
EntryCategories(entry, url, listing) ==
    IF TagsOrCategories(entry) # <<>> THEN TagsOrCategories(entry) ELSE listing

\* "url" in media and ("image" in media.get("type", "") or
\* media.get("medium") == "image")
FlaggedImage(media) ==
    /\ media.url.has
    /\ \/ \E i \in 1..Len(getattr(media.type, <<>>)) : media.type.value[i] = "image"
       \/ media.medium.has /\ media.medium.value = "image"

\* lines 258-263: the URL of the first media item flagged as an image, or None
MediaImage(entry) ==
    IF ~entry.media_content.has THEN Missing
    ELSE IF \A i \in 1..Len(entry.media_content.value) :
                ~FlaggedImage(entry.media_content.value[i]) THEN Missing
    ELSE entry.media_content.value[
             CHOOSE i \in 1..Len(entry.media_content.value) :
                /\ FlaggedImage(entry.media_content.value[i])
                /\ \A j \in 1..(i - 1) :
                      ~FlaggedImage(entry.media_content.value[j])].url

\* extract_image_from_content: the src of the first img tag, or None
extract_image_from_content(content) ==
    IF \A i \in 1..Len(content) : content[i] \notin DOMAIN ImgSrc THEN Missing
    ELSE ImgSrc[content[CHOOSE i \in 1..Len(content) :
                           /\ content[i] \in DOMAIN ImgSrc
                           /\ \A j \in 1..(i - 1) : content[j] \notin DOMAIN ImgSrc]]

\* Python's `not image_url`: None or the empty string
Falsy(image_url) == ~image_url.has \/ image_url.value = <<>>

\* lines 257-267, `content` being the content as parse_entry holds it there
EntryImage(entry, content) ==
    IF Falsy(MediaImage(entry)) /\ content # <<>>
    THEN extract_image_from_content(content)
    ELSE MediaImage(entry)

\* the title, link and dates of an entry as parse_entry reads them
EntryDated(entry) ==
    Entry(getattr(entry.title, EmptyStr), getattr(entry.link, EmptyUrl),
          entry.published_parsed, entry.updated_parsed, entry.published,
          entry.updated)

WithFields(parsed, content, categories, image_url) ==
    IF ~parsed.ok THEN NoArticle
    ELSE [ok |-> TRUE,
          article |-> [content |-> content, categories |-> categories,
                       image_url |-> image_url] @@ parsed.article]

\* parse_entry with the content, the categories and the image of its Article
parse_entry_fields(entry, source, at, listing) ==
    WithFields(parse_entry(EntryDated(entry), source, at), EntryContent(entry),
               EntryCategories(entry, getattr(entry.link, EmptyUrl), listing),
               EntryImage(entry, EntryContent(entry)))

\* the content before clean_html: lines 203-209
RawContent(entry) ==
    IF entry.content.has THEN entry.content.value
    ELSE IF entry.description.has THEN entry.description.value
    ELSE IF entry.summary.has THEN entry.summary.value
    ELSE <<>>

(* the entries of the specification *)

UrlTechSports == [host |-> <<"x">>, path |-> <<"/", "Tech", "/", "AI", "/", "sports">>]
UrlNoKeyword == [host |-> <<"x">>, path |-> <<"/", "tech-news", "/", "a">>]
UrlWorld == [host |-> <<"x">>, path |-> <<"/", "world", "/", "a">>]

Media(url, type, medium) == [url |-> url, type |-> type, medium |-> medium]
Video == Media(Attr(<<"v">>), Attr(<<"video", "/", "mp4">>), NoMedium)
ImageByType == Media(Attr(<<"j">>), Attr(<<"image", "/", "jpeg">>), NoMedium)
ImageByMedium == Media(Attr(<<"m">>), Missing, Attr("image"))
ImageNoUrl == Media(Missing, Attr(<<"image", "/", "png">>), NoMedium)

FieldEntry(link, pp, up, p, u, tags, categories, media_content, content) ==
    [title |-> Attr(TitleA), link |-> Attr(link), published_parsed |-> pp,
     updated_parsed |-> up, published |-> p, updated |-> u, tags |-> tags,
     categories |-> categories, media_content |-> media_content,
     content |-> content, description |-> Missing, summary |-> Missing]

DatedEntries ==
    {FieldEntry(UrlXa, pp, up, p, u, Missing, Missing, Missing, Missing) :
        pp \in {NoStruct, <<1, 0>>}, up \in {NoStruct, <<2, 0>>},
        p \in {NoText, BadText, Text(DateTime(3, 0, 0, FALSE))},
        u \in {NoText, BadText, Text(DateTime(4, 0, 0, FALSE))}}

TaggedEntries ==
    {FieldEntry(link, <<1, 0>>, NoStruct, NoText, NoText, tags, categories, Missing, Missing) :
        link \in {UrlXa, UrlTechSports, UrlNoKeyword, UrlWorld},
        tags \in {Missing, Attr(<<>>), Attr(<<NoTerm>>), Attr(<<Attr("x")>>),
                  Attr(<<Attr("x"), NoTerm, Attr("x"), Attr("y")>>)},
        categories \in {Missing, Attr(<<>>), Attr(<<"c">>)}}

IllustratedEntries ==
    {FieldEntry(UrlXa, <<1, 0>>, NoStruct, NoText, NoText, Missing, Missing, media, content) :
        media \in {Missing, Attr(<<>>), Attr(<<Video>>), Attr(<<ImageNoUrl>>),
                   Attr(<<Video, ImageByType, ImageByMedium>>),
                   Attr(<<ImageByMedium, ImageByType>>)},
        content \in {Missing, Attr(<<"1", "2">>),
                     Attr(<<"<p>", "1", "<img a>", "<img b>", "</p>">>),
                     Attr(<<"1", "<img>", "<img a>">>)}}

FieldEntries == DatedEntries \cup TaggedEntries \cup IllustratedEntries

\* fetch_feed hands one entry of a feed to parse_entry
ParseEntryFields ==
    \E entry \in FieldEntries :
      \E listing \in Listings(categorize_by_url(getattr(entry.link, EmptyUrl))) :
        /\ direct' = [op |-> "parse_entry", entry |-> entry,
                      r |-> parse_entry_fields(entry, "cnn", now, listing)]
        /\ UNCHANGED <<now, store, cache, run, idcase, srch, entrypointVars>>

NextEntry == ParseEntryFields

SpecEntry == InitApi /\ [][NextEntry]_vars

ParsedFields == direct.op = "parse_entry" /\ direct.r.ok

\* the first option that succeeds, every failure falling through to the next
FirstSucceeding(entry, at) ==
    IF entry.published_parsed # NoStruct THEN FromStruct(entry.published_parsed)
    ELSE IF entry.updated_parsed # NoStruct THEN FromStruct(entry.updated_parsed)
    ELSE IF entry.published.present /\ entry.published.parses THEN entry.published.t
    ELSE IF entry.updated.present /\ entry.updated.parses THEN entry.updated.t
    ELSE at

\* C23: the published timestamp of parse_entry is the first option that
\* succeeds in the order parsed-struct published, parsed-struct updated,
\* free-text published, free-text updated, current time; a free-text
\* published string that fails to parse falls through to the free-text updated
\* string.
C23_FirstSucceedingOption ==
    ParsedFields =>
        direct.r.article.published_date = FirstSucceeding(direct.entry, now)


\* the tag list yields at least one tag
YieldsTag(entry) == entry.tags.has /\ Terms(entry.tags.value) # <<>>

\* the categories field is present and names a category
HasCategories(entry) == entry.categories.has /\ entry.categories.value # <<>>

\* the categories are those matched from the URL, each listed once
FromUrl(categories, entry) ==
    /\ {categories[i] : i \in 1..Len(categories)}
          = categorize_by_url(getattr(entry.link, EmptyUrl))
    /\ \A i, j \in 1..Len(categories) : categories[i] = categories[j] => i = j

\* C24 as stated: the categories are the tag list when it yields a tag,
\* otherwise the categories field when present, and the URL's categories only
\* when both give nothing.
C24_TagsElseCategoriesElseUrl ==
    ParsedFields =>
        /\ YieldsTag(direct.entry) =>
              direct.r.article.categories = Terms(direct.entry.tags.value)
        /\ ~YieldsTag(direct.entry) /\ HasCategories(direct.entry) =>
              direct.r.article.categories = direct.entry.categories.value
        /\ ~YieldsTag(direct.entry) /\ ~HasCategories(direct.entry) =>
              FromUrl(direct.r.article.categories, direct.entry)

\* C24 (amended): the categories are the terms of the tag list when the entry
\* has a tags attribute that yields a term; the categories field when the entry
\* has no tags attribute and the field names a category; otherwise, also when
\* a tags attribute that yields no term stands beside a categories field, the
\* categories matched from the URL path, each once.
C24_CategoriesFieldOnlyWithoutTags ==
    ParsedFields =>
        /\ YieldsTag(direct.entry) =>
              direct.r.article.categories = Terms(direct.entry.tags.value)
        /\ ~direct.entry.tags.has /\ HasCategories(direct.entry) =>
              direct.r.article.categories = direct.entry.categories.value
        /\ ~YieldsTag(direct.entry)
             /\ (direct.entry.tags.has \/ ~HasCategories(direct.entry)) =>
              FromUrl(direct.r.article.categories, direct.entry)

\* an entry whose tags yield no term and whose categories field names one has
\* been given the two categories of its URL
C24_Witness ==
    /\ ParsedFields
    /\ direct.entry.tags.has /\ ~YieldsTag(direct.entry)
    /\ HasCategories(direct.entry)
    /\ Len(direct.r.article.categories) = 2
    /\ FromUrl(direct.r.article.categories, direct.entry)

\* C25: the image URL is the URL of the first media-content item flagged as an
\* image, and when there is none the src of the first img tag of the entry's
\* raw content.
C25_MediaElseFirstImgOfRawContent ==
    ParsedFields =>
        direct.r.article.image_url =
            IF MediaImage(direct.entry).has THEN MediaImage(direct.entry)
            ELSE extract_image_from_content(RawContent(direct.entry))

-----------------------------------------------------------------------------
(* The cache specification: fetch_feed called for one source at a time       *)
(* (feed_parser.py:285-311, save_to_cache 165-173)                           *)

\* [article.to_dict() for article in articles]
Dicts(articles) == [k \in 1..Len(articles) |-> to_dict(articles[k])]

\* save_to_cache: the file of the source is overwritten, unless the write
\* raises, which is logged and swallowed
save_to_cache(old, source, articles, writeFails) ==
    IF writeFails THEN old ELSE [old EXCEPT ![source] = articles]

\* lines 307-309 saving whatever the fetch returned
UpdateCacheAlways(old, source, articles, writeFails) ==
    save_to_cache(old, source, Dicts(articles), writeFails)

\* lines 307-309: if articles: save_to_cache(...)
UpdateCache(old, source, articles, writeFails) ==
    IF articles # <<>> THEN save_to_cache(old, source, Dicts(articles), writeFails)
    ELSE old

\* one call of fetch_feed
FetchFeed ==
    \E source \in Sources, resp \in FetchFeeds, writeFails \in BOOLEAN :
        /\ run' = [op |-> "fetch_feed", source |-> source, resp |-> resp,
                   articles |-> fetch_feed(source, resp, now).articles,
                   writeFails |-> writeFails, cache_before |-> cache]
        /\ cache' = UpdateCache(cache, source,
                                fetch_feed(source, resp, now).articles, writeFails)
        /\ UNCHANGED <<now, store, direct, idcase, srch, entrypointVars>>

NextCache == FetchFeed

SpecCache == InitApi /\ [][NextCache]_vars

FetchedOne == run.op = "fetch_feed"

CountOf(articles, P(_)) == Cardinality({k \in 1..Len(articles) : P(articles[k])})

\* C27: the statistics returned by process_feeds are the sizes of the fetched
\* list, of the list of the fetched articles published at or after
\* one_week_ago, of the set of ids the lookup returned and of the list of the
\* recent articles with an id outside that set; hence
\* new_articles_added <= recent_articles <= total_fetched in every run.
C27_StatisticsAreSizes ==
    Returned =>
        /\ run.stats.total_fetched = Len(run.fetch.articles)
        /\ run.stats.recent_articles =
              CountOf(run.fetch.articles,
                      LAMBDA a : AtOrAfter(a.published_date, MinusDays(run.at, RECENT_DAYS)))
        /\ run.stats.existing_articles = Cardinality(run.existing_ids)
        /\ run.stats.new_articles_added =
              CountOf(run.fetch.articles,
                      LAMBDA a : /\ AtOrAfter(a.published_date, MinusDays(run.at, RECENT_DAYS))
                                 /\ a.id \notin run.existing_ids)
        /\ run.stats.new_articles_added <= run.stats.recent_articles
        /\ run.stats.recent_articles <= run.stats.total_fetched

\* a run has returned with fewer new than recent and fewer recent than fetched
\* articles, and a non-empty set of existing ids
C27_Witness ==
    /\ Returned
    /\ run.stats.new_articles_added < run.stats.recent_articles
    /\ run.stats.recent_articles < run.stats.total_fetched
    /\ run.stats.existing_articles > 0

-----------------------------------------------------------------------------
(* The log pipeline of the UI server (ui.py): tail_log_file puts the lines   *)
(* of the log file on log_queue, process_logs takes them off and emits them  *)

maxsize == 1000
MAX_LOGS == 1000
max_consecutive_errors == 5
cooldown_seconds == 30

\* the lines the tailer reads, and the heartbeats that fall due, in a run
MaxLogLines == 6
MaxHeartbeats == 1

\* the line process_logs puts on the queue itself: its start message and its
\* heartbeats; the lines of the log file are numbered from 1
OwnLine == 0

\* the state of the pipeline: the queue, the number of lines the tailer has
\* read, the line the tailer is blocked putting (0: none), whether process_logs
\* is blocked putting a heartbeat, the locals of process_logs, and what its
\* last turn of the loop did
Ui(q, read, pending, beats, beat_pending, errors, cooldown, recent, last) ==
    [op |-> "ui", log_queue |-> q, read |-> read, pending |-> pending,
     beats |-> beats, beat_pending |-> beat_pending,
     consecutive_errors |-> errors, error_cooldown |-> cooldown,
     recent_logs |-> recent, last |-> last]

\* queue.Queue.full()
Full(q) == Len(q) >= maxsize

\* log_queue.put(line) with block=True and no timeout: the line is queued
\* when there is a free slot, and the caller waits for one otherwise
QueuePut(ui, line) ==
    IF Full(ui.log_queue) THEN [ui EXCEPT !.pending = line, !.read = line]
    ELSE [ui EXCEPT !.log_queue = Append(@, line), !.read = line]

\* recent_logs after a log is added (lines 268-270)
Buffered(recent, log) ==
    Append(IF Len(recent) >= MAX_LOGS THEN Tail(recent) ELSE recent, log)

\* lines 243-250: a second of cool-down
CoolDown(ui) ==
    [ui EXCEPT !.error_cooldown = (IF @ = 0 THEN cooldown_seconds ELSE @) - 1,
               !.last = "cooldown"]

\* lines 252-283: a log is taken off the queue, buffered and emitted
TakeAndEmit(ui, ok) ==
    IF ui.log_queue = <<>> THEN [ui EXCEPT !.last = "empty"]
    ELSE [ui EXCEPT !.log_queue = Tail(@),
                    !.recent_logs = Buffered(@, Head(ui.log_queue)),
                    !.consecutive_errors = IF ok THEN 0 ELSE @ + 1,
                    !.last = IF ok THEN "emitted" ELSE "emit_failed"]

\* lines 242-283: a turn of the loop after the heartbeat
AfterHeartbeat(ui, ok) ==
    IF ui.consecutive_errors >= max_consecutive_errors THEN CoolDown(ui)
    ELSE TakeAndEmit(ui, ok)

\* lines 235-283: one turn of the loop of process_logs; `due` tells whether
\* the heartbeat interval has passed, `ok` whether socketio.emit succeeds
LoopTurn(ui, due, ok) ==
    IF due /\ Full(ui.log_queue)
    THEN [ui EXCEPT !.beats = @ + 1, !.beat_pending = TRUE]
    ELSE IF due
    THEN AfterHeartbeat([ui EXCEPT !.beats = @ + 1,
                                   !.log_queue = Append(@, OwnLine)], ok)
    ELSE AfterHeartbeat(ui, ok)

\* process_logs has started: line 232
InitUi ==
    /\ now = DateTime(8, 0, 0, FALSE)
    /\ store = {}
    /\ cache = EmptyCache
    /\ run = NoRun
    /\ direct = NoRun
    /\ idcase = NoCase
    /\ srch = Ui(<<OwnLine>>, 0, 0, 0, FALSE, 0, 0, <<>>, "start")
    /\ IdleEntrypoint

\* tail_log_file reads the next line of the log file and puts it on the
\* queue, or its waiting put finds a free slot
TailLogFile(lines) ==
    /\ \/ /\ srch.pending = 0 /\ srch.read < lines
          /\ srch' = QueuePut(srch, srch.read + 1)
       \/ /\ srch.pending # 0 /\ ~Full(srch.log_queue)
          /\ srch' = [srch EXCEPT !.log_queue = Append(@, srch.pending),
                                  !.pending = 0]
    /\ UNCHANGED <<now, store, cache, run, direct, idcase, entrypointVars>>

\* one turn of the loop of process_logs
ProcessLogs(emits, heartbeats) ==
    /\ ~srch.beat_pending
    /\ \E due \in IF srch.beats < heartbeats THEN BOOLEAN ELSE {FALSE} :
          \E ok \in emits : srch' = LoopTurn(srch, due, ok)
    /\ UNCHANGED <<now, store, cache, run, direct, idcase, entrypointVars>>

NextLogs == TailLogFile(MaxLogLines) \/ ProcessLogs(BOOLEAN, MaxHeartbeats)

SpecLogs == InitUi /\ [][NextLogs]_vars

\* the thread of process_logs is a loop that sleeps a second at most per turn
SpecLogsFair == SpecLogs /\ WF_vars(ProcessLogs(BOOLEAN, MaxHeartbeats))

\* C28: after process_logs has reached 5 consecutive errors and cooled down,
\* it resumes taking entries from the log queue: every turn spent cooling
\* down is followed, sooner or later, by a turn that reads the queue.
C28_ResumesAfterCoolDown ==
    (srch.last = "cooldown") ~> (srch.last \in {"empty", "emitted", "emit_failed"})


-----------------------------------------------------------------------------
(* The tailer against a full queue: the clients cannot be reached, so that   *)
(* process_logs stops consuming after max_consecutive_errors logs            *)

NextTailer == TailLogFile(maxsize + MaxLogLines) \/ ProcessLogs({FALSE}, 0)

SpecTailer == InitUi /\ [][NextTailer]_vars

\* C29: when the log queue is full, tail_log_file removes the oldest queued
\* line and enqueues the new one without blocking: the tailer never waits in a
\* put while process_logs is not consuming.
C29_TailerNeverWaitsOnFullQueue == srch.pending = 0


-----------------------------------------------------------------------------
(* RequestTrackerMiddleware (request_tracker.py:19-109)                      *)

MAX_REQUESTS == 100

\* the requests of a run
MaxRequests == 103

\* the requests whose handler may still run while later requests start, and
\* the requests whose handler fails
SlowRequests == {0, 1, MAX_REQUESTS}
FailingRequests == {1, 2}

\* the state of the module: request_counter, recent_requests, the requests
\* whose dispatch waits in call_next, and the request that finished last
Tracker(counter, recent, pending, finished) ==
    [op |-> "tracker", request_counter |-> counter, recent_requests |-> recent,
     pending |-> pending, finished |-> finished]

\* lines 43-52
RequestInfo(request_id) == [id |-> request_id, status |-> "pending"]

\* lines 55-57 with the list popped only when it is longer than MAX_REQUESTS
AddedPoppingLate(recent_requests, request_info) ==
    Append(IF Len(recent_requests) > MAX_REQUESTS THEN Tail(recent_requests)
           ELSE recent_requests, request_info)

\* lines 55-57
Added(recent_requests, request_info) ==
    Append(IF Len(recent_requests) >= MAX_REQUESTS THEN Tail(recent_requests)
           ELSE recent_requests, request_info)

\* lines 67, 101: the status is written into the request's dict, which the
\* list shows for as long as it holds the dict
WithStatus(recent_requests, request_id, status) ==
    [k \in 1..Len(recent_requests) |->
        IF recent_requests[k].id = request_id
        THEN [recent_requests[k] EXCEPT !.status = status]
        ELSE recent_requests[k]]

\* how call_next can end for a request: a response below 400, a response of
\* 400 or above, an exception
Endings(request_id) ==
    IF request_id \in FailingRequests THEN {"response_error", "raised"}
    ELSE {"response_ok"}

InitTracker ==
    /\ now = DateTime(8, 0, 0, FALSE)
    /\ store = {}
    /\ cache = EmptyCache
    /\ run = NoRun
    /\ direct = NoRun
    /\ idcase = NoCase
    /\ srch = Tracker(0, <<>>, {}, -1)
    /\ IdleEntrypoint

\* dispatch up to its first await (lines 28-61): no other coroutine runs
\* between the reading of request_counter and the append
StartRequest ==
    /\ srch.request_counter < MaxRequests
    /\ srch.pending \subseteq SlowRequests
    /\ srch' = [srch EXCEPT !.request_counter = @ + 1,
                            !.recent_requests =
                               Added(@, RequestInfo(srch.request_counter)),
                            !.pending = @ \cup {srch.request_counter}]
    /\ UNCHANGED <<now, store, cache, run, direct, idcase, entrypointVars>>

\* dispatch after call_next (lines 62-109)
FinishRequest ==
    \E request_id \in srch.pending : \E ending \in Endings(request_id) :
        /\ srch' = [srch EXCEPT !.recent_requests =
                                   WithStatus(@, request_id,
                                              IF ending = "response_ok"
                                              THEN "success" ELSE "error"),
                                !.pending = @ \ {request_id},
                                !.finished = request_id]
        /\ UNCHANGED <<now, store, cache, run, direct, idcase, entrypointVars>>

NextTracker == StartRequest \/ FinishRequest

SpecTracker == InitTracker /\ [][NextTracker]_vars

\* C30: after any sequence of interleaved requests recent_requests holds at
\* most MAX_REQUESTS entries, and they are the requests started last, in the
\* order they started: request ids are given in start order, and the list
\* holds the ids request_counter - Len .. request_counter - 1.
C30_MostRecentInStartOrder ==
    /\ Len(srch.recent_requests) <= MAX_REQUESTS
    /\ Len(srch.recent_requests) = Min(srch.request_counter, MAX_REQUESTS)
    /\ \A k \in 1..Len(srch.recent_requests) :
          srch.recent_requests[k].id =
              srch.request_counter - Len(srch.recent_requests) + k - 1

\* more than MAX_REQUESTS requests have started, the first one finished after
\* it had been evicted, and a later one is still pending in the list
C30_Witness ==
    /\ srch.request_counter > MAX_REQUESTS + 1
    /\ srch.finished = 0
    /\ srch.recent_requests[1].id = srch.request_counter - MAX_REQUESTS
    /\ \E k \in 1..Len(srch.recent_requests) :
          srch.recent_requests[k].status = "pending"
    /\ \E k \in 1..Len(srch.recent_requests) :
          srch.recent_requests[k].status = "error"

====
